---- MODULE Spec2Model ----
(***************************************************************************)
(* Model of the BLE bridging layer of AstroBox-NG-Module-App-ESP32S3:      *)
(*   - src/src/miwear.rs       connect(): the MiWear session bootstrap,    *)
(*                             the send worker and the write callback      *)
(*   - src/src/miwear/ancs.rs  init_fake_ancs_service(): the emulated ANCS *)
(*                             server, its handlers and heartbeat task     *)
(*   - src/src/main.rs         the LocalSet that owns the spawned tasks    *)
(*                                                                         *)
(* Spec      the MiWear bootstrap, send worker, callers, link events       *)
(* LiveSpec  Spec with the fairness of the cooperative executor            *)
(* SpecAncs  the emulated ANCS server driven by BLE stack callbacks        *)
(* SpecTouch the touch loop of src/src/touch.rs and the pointer actions    *)
(*           it dispatches to the UI                                       *)
(***************************************************************************)
EXTENDS Integers, Sequences, FiniteSets, TLC

(* ------------------------------ bounds -------------------------------- *)
\* number of calls of the write callback (send_cb) in one run
MaxCalls == 2
\* number of times the BLE stack fires the client's disconnect callback
MaxDisconnects == 2
\* number of heartbeat ticks of the ANCS task in one run
MaxTicks == 2
\* number of peers that connect to the emulated ANCS server in one run
MaxPeers == 2

\* length of the characteristic lists resolution is run on
MaxChars == 4

\* number of advertisements that arrive during one scan
MaxAdvs == 3

\* number of attribute entries in a Control Point request
MaxAttrs == 2

\* number of pointer actions the touch loop dispatches in one run
MaxTouchEvents == 4

Calls == 1..MaxCalls
Peers == 1..MaxPeers

(* ------------------------- byte and text helpers ---------------------- *)
HexDigits == <<"0","1","2","3","4","5","6","7","8","9","a","b","c","d","e","f">>

\* {:02x} of one byte
Hex2(b) == <<HexDigits[(b \div 16) + 1], HexDigits[(b % 16) + 1]>>

RECURSIVE HexBytes(_)
HexBytes(bs) == IF bs = <<>> THEN <<>> ELSE Hex2(Head(bs)) \o HexBytes(Tail(bs))

\* str::to_ascii_lowercase on one character
LowerChar(c) ==
    CASE c = "A" -> "a" [] c = "B" -> "b" [] c = "C" -> "c"
      [] c = "D" -> "d" [] c = "E" -> "e" [] c = "F" -> "f"
      [] c = "X" -> "x" [] OTHER -> c

to_ascii_lowercase(s) == [i \in 1..Len(s) |-> LowerChar(s[i])]

\* str::replace('-', "")
RemoveDashes(s) == SelectSeq(s, LAMBDA c : c # "-")

\* str::contains
Contains(s, sub) ==
    \E i \in 0..(Len(s) - Len(sub)) : SubSeq(s, i + 1, i + Len(sub)) = sub

(* ------------------------------- UUIDs -------------------------------- *)
\* BleUuid::Uuid16(v) and BleUuid::Uuid128(bytes); bytes are kept in the order
\* they are printed (most significant first)
Uuid16(v)   == [kind |-> 16, v |-> v, bytes |-> <<>>]
Uuid128(bs) == [kind |-> 128, v |-> 0, bytes |-> bs]

u16_uuid(u) == Uuid16(u)

\* the 128-bit form of a 16-bit UUID on the Bluetooth base UUID
\* 0000xxxx-0000-1000-8000-00805f9b34fb
ToUuid128Bytes(u) ==
    IF u.kind = 128 THEN u.bytes
    ELSE <<0, 0, u.v \div 256, u.v % 256, 0, 0, 16, 0, 128, 0, 0, 128, 95, 155, 52, 251>>

\* BleUuid == BleUuid as connect() uses it (u == uuid_recv): the same UUID value
UuidEq(a, b) == ToUuid128Bytes(a) = ToUuid128Bytes(b)

\* format!("{u:?}")
FormatUuid(u) ==
    IF u.kind = 16
    THEN <<"0", "x">> \o Hex2(u.v \div 256) \o Hex2(u.v % 256)
    ELSE HexBytes(SubSeq(u.bytes, 1, 4)) \o <<"-">> \o HexBytes(SubSeq(u.bytes, 5, 6))
         \o <<"-">> \o HexBytes(SubSeq(u.bytes, 7, 8)) \o <<"-">>
         \o HexBytes(SubSeq(u.bytes, 9, 10)) \o <<"-">> \o HexBytes(SubSeq(u.bytes, 11, 16))

uuid_contains(u, needle) ==
    Contains(to_ascii_lowercase(RemoveDashes(FormatUuid(u))), to_ascii_lowercase(needle))

mi_service        == u16_uuid(65173)
uuid_service_flag == u16_uuid(80)
uuid_recv         == u16_uuid(94)
uuid_sent         == u16_uuid(95)

(* ------------------------------ scanning ------------------------------ *)
wanted_name == <<"X","i","a","o","m","i"," ","W","a","t","c","h"," ","S","4">>

\* the scan callback's hit test on one advertisement
ScanHit(adv) ==
    (IF adv.name = <<>> THEN FALSE ELSE Contains(adv.name, wanted_name))
    \/ (\E u \in adv.service_uuids : UuidEq(u, mi_service))

\* a scan whose result is the last advertisement the callback accepts
RECURSIVE ScanStartLast(_)
ScanStartLast(advs) ==
    IF advs = <<>> THEN 0
    ELSE IF ScanStartLast(Tail(advs)) # 0 THEN ScanStartLast(Tail(advs))
    ELSE IF ScanHit(Head(advs)) THEN Head(advs).addr
    ELSE 0

\* BLEScan::start with the callback: the address of the first advertisement, in
\* arrival order, for which the callback returns Some; 0 when the timeout elapses
RECURSIVE ScanStart(_)
ScanStart(advs) ==
    IF advs = <<>> THEN 0
    ELSE IF ScanHit(Head(advs)) THEN Head(advs).addr
    ELSE ScanStart(Tail(advs))

\* number of advertisements the callback is invoked on: the scan ends with the
\* first Some the callback returns, or with the timeout
RECURSIVE ScanExamined(_)
ScanExamined(advs) ==
    IF advs = <<>> THEN 0
    ELSE IF ScanHit(Head(advs)) THEN 1
    ELSE 1 + ScanExamined(Tail(advs))

\* advertisements the scan may see (inputs)
AdvWatch  == [name |-> wanted_name \o <<" ","1","A">>, service_uuids |-> {}, addr |-> 1]
AdvBySvc  == [name |-> <<>>, service_uuids |-> {u16_uuid(65173)}, addr |-> 2]
AdvOther  == [name |-> <<"M","i"," ","B","a","n","d">>, service_uuids |-> {u16_uuid(6159)}, addr |-> 3]
AdvSeqs   == { <<AdvOther, AdvWatch, AdvBySvc>>, <<AdvOther>>, <<>> }

\* an advertisement whose name is only a part of the wanted name
AdvPartial == [name |-> <<"X","i","a","o","m","i"," ","W","a","t","c","h">>,
               service_uuids |-> {}, addr |-> 4]

\* every sequence of at most MaxAdvs advertisements of these kinds (inputs of
\* the scan)
AdvKinds == {AdvWatch, AdvBySvc, AdvOther, AdvPartial}
ScanLists == UNION {[1..n -> AdvKinds] : n \in 0..MaxAdvs}

(* ------------------------ characteristic lists ------------------------ *)
\* a custom 128-bit UUID whose text contains "005e" and that is not 0x005E
CustomRecvBytes == <<106, 0, 94, 1, 29, 42, 17, 3, 155, 7, 2, 66, 172, 19, 0, 2>>

ChFlag         == [uuid |-> u16_uuid(80), props |-> {"read"}]
ChRecv         == [uuid |-> u16_uuid(94), props |-> {"notify"}]
ChRecvNoNotify == [uuid |-> u16_uuid(94), props |-> {"read"}]
ChRecvCustom   == [uuid |-> Uuid128(CustomRecvBytes), props |-> {"notify"}]
ChSent         == [uuid |-> u16_uuid(95), props |-> {"write", "write_nr"}]
ChSentNoRsp    == [uuid |-> u16_uuid(95), props |-> {"write_nr"}]
ChSentNoWrite  == [uuid |-> u16_uuid(95), props |-> {"read"}]
ChOther        == [uuid |-> u16_uuid(10752), props |-> {"read"}]

\* custom 128-bit UUIDs: one whose text contains "005e" and "005f", one whose
\* text contains "0050"
DualBytes == <<0, 94, 0, 95, 17, 34, 51, 68, 85, 102, 119, 136, 153, 170, 187, 204>>
CustomFlagBytes == <<171, 0, 80, 18, 17, 34, 51, 68, 85, 102, 119, 136, 153, 170, 187, 204>>

ChDual       == [uuid |-> Uuid128(DualBytes), props |-> {"notify", "write"}]
ChFlagCustom == [uuid |-> Uuid128(CustomFlagBytes), props |-> {"read"}]

\* every list of at most MaxChars characteristics of these kinds, in any order
\* and with repetitions (inputs of the resolution)
ResolveKinds == {ChFlag, ChRecv, ChSent, ChRecvCustom, ChDual, ChFlagCustom, ChOther}
ResolveLists == UNION {[1..n -> ResolveKinds] : n \in 0..MaxChars}

\* characteristic lists the peer's 0xFE95 service may expose (inputs)
CharLists ==
    { <<ChFlag, ChRecv, ChSent>>,
      <<ChFlag, ChRecvNoNotify, ChSentNoRsp>>,
      <<ChFlag, ChRecv, ChSentNoWrite>>,
      <<ChFlag, ChRecv>> }

can_read(c)              == "read" \in c.props
can_write(c)             == "write" \in c.props
can_write_no_response(c) == "write_nr" \in c.props
can_notify(c)            == "notify" \in c.props

(* -------------------- characteristic resolution ----------------------- *)
\* the three Option slots; 0 is None, i > 0 is a clone of chars[i]
NoneSlots == [flag |-> 0, recv |-> 0, sent |-> 0]

\* body of the first loop (exact 16-bit UUID match)
ExactStep(st, i, c) ==
    IF st.recv = 0 /\ UuidEq(c.uuid, uuid_recv) THEN [st EXCEPT !.recv = i]
    ELSE IF st.sent = 0 /\ UuidEq(c.uuid, uuid_sent) THEN [st EXCEPT !.sent = i]
    ELSE IF st.flag = 0 /\ UuidEq(c.uuid, uuid_service_flag) THEN [st EXCEPT !.flag = i]
    ELSE st

RECURSIVE ExactPass(_, _, _)
ExactPass(cs, i, st) ==
    IF i > Len(cs) THEN st ELSE ExactPass(cs, i + 1, ExactStep(st, i, cs[i]))

\* a second loop without its continue statements: one characteristic is
\* tested for every role
SubstringStepNoContinue(st, i, c) ==
    [recv |-> IF st.recv = 0 /\ uuid_contains(c.uuid, <<"0","0","5","e">>) THEN i ELSE st.recv,
     sent |-> IF st.sent = 0 /\ uuid_contains(c.uuid, <<"0","0","5","f">>) THEN i ELSE st.sent,
     flag |-> IF st.flag = 0 /\ uuid_contains(c.uuid, <<"0","0","5","0">>) THEN i ELSE st.flag]

\* a second loop that binds a role again although it is already resolved
SubstringStepOverwrite(st, i, c) ==
    IF uuid_contains(c.uuid, <<"0","0","5","e">>) THEN [st EXCEPT !.recv = i]
    ELSE IF uuid_contains(c.uuid, <<"0","0","5","f">>) THEN [st EXCEPT !.sent = i]
    ELSE IF uuid_contains(c.uuid, <<"0","0","5","0">>) THEN [st EXCEPT !.flag = i]
    ELSE st

\* body of the second loop (substring of the formatted UUID)
SubstringStep(st, i, c) ==
    IF st.recv = 0 /\ uuid_contains(c.uuid, <<"0","0","5","e">>) THEN [st EXCEPT !.recv = i]
    ELSE IF st.sent = 0 /\ uuid_contains(c.uuid, <<"0","0","5","f">>) THEN [st EXCEPT !.sent = i]
    ELSE IF st.flag = 0 /\ uuid_contains(c.uuid, <<"0","0","5","0">>) THEN [st EXCEPT !.flag = i]
    ELSE st

RECURSIVE SubstringPass(_, _, _)
SubstringPass(cs, i, st) ==
    IF i > Len(cs) THEN st ELSE SubstringPass(cs, i + 1, SubstringStep(st, i, cs[i]))

\* a resolution without the fallback pass
ResolveExactOnly(cs) == ExactPass(cs, 1, NoneSlots)

ResolveCharacteristics(cs) ==
    LET first == ExactPass(cs, 1, NoneSlots)
    IN  IF first.flag = 0 \/ first.recv = 0 \/ first.sent = 0
        THEN SubstringPass(cs, 1, first)
        ELSE first

\* the messages taken in the order the loops test the roles
ResolveErrorRecvFirst(st) ==
    IF st.recv = 0 THEN "0x005e not found"
    ELSE IF st.sent = 0 THEN "0x005f not found"
    ELSE IF st.flag = 0 THEN "0x0050 not found"
    ELSE ""

\* the three ok_or_else(...)? in order: the message of the first unresolved role
ResolveError(st) ==
    IF st.flag = 0 THEN "0x0050 not found"
    ELSE IF st.recv = 0 THEN "0x005e not found"
    ELSE IF st.sent = 0 THEN "0x005f not found"
    ELSE ""

(* -------------------------------- state ------------------------------- *)
VARIABLES
    \* connect(): the bootstrap task
    pc,                 \* position of connect(): the stage it is about to run
    ops,                \* stage operations connect() has performed, in order
    err,                \* the error connect() returned ("" while none)
    addr,               \* address returned by the scan (0: none)
    scan,               \* the scan: advertisements that arrived, how many the
                        \* callback examined, whether scan.start returned Ok
    chars,              \* svc.get_characteristics() collected
    slots,              \* ch_service_flag / ch_recv / ch_sent
    on_notify_set,      \* ch_recv.on_notify(dispatcher) installed
    subscribed,         \* ch_recv.subscribe_notify(true) succeeded
    factory_calls,      \* invocations of device::create_miwear_device
    \* the client link and the disconnect cell
    link,               \* "none" | "up" | "down"
    discs,              \* reasons the disconnect callback was fired with, in order
    disconnect_reason,  \* Arc<Mutex<Option<reason>>> (0: None)
    notify_calls,       \* number of disconnect_notify.notify_waiters() calls
    notified_seen,      \* notify_waiters count captured when notified() was created
    reported,           \* reason logged at line 221 (-1: not yet, 0: None)
    wakeups,            \* times the bootstrap woke from notified().await
    \* the send queue, its worker and the callers of send_cb
    rx_queue,           \* entries in the unbounded channel, oldest first
    wpc,                \* worker: "none" | "recv" | "await_write" | "exited" | "dead"
    cur,                \* entry the worker is writing (0: none)
    inflight,           \* writes outstanding against the send characteristic
    wstat,              \* per entry: result of its write_value ("none" | "ok" | "err")
    resp,               \* per entry: content of its oneshot channel
    resp_sent,          \* per entry: number of responder.send calls
    deq,                \* per entry: number of times rx.recv() returned it
    wrcnt,              \* per entry: number of write_value calls
    cstate,             \* per call: "idle" | "waiting" | "done"
    cres,               \* per call: the result enqueue resolved with
    handed,             \* entries in the order tx.send accepted them
    written,            \* writes in the order the send characteristic saw them
    boot_holds,         \* connect() still owns send_queue (a sender)
    cb_held,            \* the factory / device still owns the write callback
    torn_down,          \* the LocalSet owning the tasks has been dropped
    \* the emulated ANCS server
    ancs,               \* "none" | "running" | "start_failed" | "adv_failed"
    hb_spawned,         \* the heartbeat task exists
    advertising,        \* the device is advertising
    adv_restart,        \* restart_advertising in the last handler: "none" | "ok" | "failed"
    counter,            \* heartbeat task: counter (u32)
    ticks,              \* heartbeat ticks taken so far
    ns_value,           \* Notification Source characteristic value
    conns,              \* peers connected to the server
    encrypted,          \* per peer: desc.encrypted()
    ns_subs,            \* peers subscribed to Notification Source
    ns_sent,            \* notifications the last handler sent on Notification Source
    event,              \* the callback or task step that ran last: kind, peer, status
    ds_value,           \* Data Source characteristic value
    ds_subs,            \* peers subscribed to Data Source
    ds_sent,            \* notifications the last Control Point write sent on Data Source
    cp_rejected,        \* the last Control Point write called args.reject()
    cp_request,         \* the request of the last Control Point write that was accepted
    \* the touch loop and the UI
    touch_pc,           \* touch_loop: "loop" | "exited" (it returned an error)
    pointer_active,     \* touch_loop: pointer_active
    touch_event,        \* the touch event handled last (action -1: none yet)
    touch_text,         \* the text set_touch_text showed last
    platform_window,    \* PLATFORM_WINDOW holds a window
    pointer_actions     \* pointer actions dispatched to the window, in order

bootVars == <<pc, ops, err, addr, scan, chars, slots, on_notify_set, subscribed, factory_calls>>
linkVars == <<link, discs, disconnect_reason, notify_calls, notified_seen, reported, wakeups>>
chanVars == <<rx_queue, handed, boot_holds, cb_held, torn_down>>
workVars == <<wpc, cur, inflight, wstat, resp, resp_sent, deq, wrcnt, written>>
callVars == <<cstate, cres>>
sendVars == <<chanVars, workVars, callVars>>
ancsInitVars == <<ancs, hb_spawned, advertising, counter, ns_value, ds_value>>
cpRunVars == <<ds_subs, ds_sent, cp_rejected, cp_request>>
ancsRunVars == <<ticks, conns, encrypted, ns_subs, ns_sent, adv_restart, event, cpRunVars>>
ancsVars == <<ancsInitVars, ancsRunVars>>
miVars == <<bootVars, linkVars, sendVars>>
touchVars == <<touch_pc, pointer_active, touch_event, touch_text, platform_window, pointer_actions>>
vars == <<miVars, ancsVars, touchVars>>

\* disconnect reason codes the stack reports (inputs): the i-th firing of the
\* callback carries the code 519 + i, so successive events carry distinct reasons
Reasons == {519 + Len(discs) + 1}

(* ------------------------ ANCS payload codec -------------------------- *)
\* a u32 is kept as its four bytes, least significant first (u32::to_le_bytes),
\* so that the full 32-bit range is represented
U32(n) == <<n % 256, (n \div 256) % 256, (n \div 65536) % 256, (n \div 16777216) % 256>>

build_notification_source_payload(seq) == <<0, 1, 0, 1>> \o seq

\* u32::wrapping_add(1): increment with carry, 0xFFFFFFFF wraps to 0
RECURSIVE IncBytes(_)
IncBytes(bs) ==
    IF bs = <<>> THEN <<>>
    ELSE IF Head(bs) = 255 THEN <<0>> \o IncBytes(Tail(bs))
    ELSE <<Head(bs) + 1>> \o Tail(bs)

\* an increment that stops at 0xFFFFFFFF instead of wrapping
saturating_add1(n) == IF n = <<255, 255, 255, 255>> THEN n ELSE IncBytes(n)

wrapping_add1(n) == IncBytes(n)

\* n applications of wrapping_add(1), n given as a u32: addition modulo 2^32,
\* byte by byte with carry
RECURSIVE AddBytes(_, _, _)
AddBytes(a, b, carry) ==
    IF a = <<>> THEN <<>>
    ELSE LET sum == Head(a) + Head(b) + carry
         IN  <<sum % 256>> \o AddBytes(Tail(a), Tail(b), sum \div 256)

wrapping_add(a, n) == AddBytes(a, n, 0)

(* ---------------------- Control Point codec --------------------------- *)
\* the canned strings, as their UTF-8 bytes
\* "com.astrobox.ghost"
DUMMY_APP_IDENTIFIER == <<99, 111, 109, 46, 97, 115, 116, 114, 111, 98, 111, 120, 46, 103, 104, 111, 115, 116>>
\* "AstroBox Phantom"
DUMMY_APP_DISPLAY_NAME == <<65, 115, 116, 114, 111, 66, 111, 120, 32, 80, 104, 97, 110, 116, 111, 109>>
\* "Phantom Alert"
DUMMY_MESSAGE_TITLE == <<80, 104, 97, 110, 116, 111, 109, 32, 65, 108, 101, 114, 116>>
\* "Faint Signal"
DUMMY_MESSAGE_SUBTITLE == <<70, 97, 105, 110, 116, 32, 83, 105, 103, 110, 97, 108>>
\* "Spectral notification with no real content."
DUMMY_MESSAGE_BODY ==
    <<83, 112, 101, 99, 116, 114, 97, 108, 32, 110, 111, 116, 105, 102, 105, 99, 97, 116, 105, 111, 110, 32, 119, 105, 116, 104, 32, 110, 111, 32, 114, 101, 97, 108, 32, 99, 111, 110, 116, 101, 110, 116, 46>>
\* "19700101T000000"
DUMMY_DATE == <<49, 57, 55, 48, 48, 49, 48, 49, 84, 48, 48, 48, 48, 48, 48>>

\* Option<Vec<u8>>
None == [some |-> FALSE, v |-> <<>>]
Some(v) == [some |-> TRUE, v |-> v]

\* request[i] with Rust's 0-based index. An index outside the request is a
\* panic in the code: the builders record every index they read (reads), and
\* a read outside the request shows there; its value here is 0
At(request, i) == IF i < Len(request) THEN request[i + 1] ELSE 0

\* &request[a..b] with Rust's 0-based, end-exclusive bounds
Slice(request, a, b) == SubSeq(request, a + 1, b)

\* u16::from_le_bytes([lo, hi]) and (n as u16).to_le_bytes()
u16_from_le_bytes(lo, hi) == lo + 256 * hi
u16_to_le_bytes(n) == <<n % 256, (n \div 256) % 256>>

\* a truncation that never shortens the data
truncate_bytes_whole(data, max_len) == data

truncate_bytes(data, max_len) ==
    IF max_len = 0 \/ Len(data) <= max_len THEN data ELSE SubSeq(data, 1, max_len)

\* a test that knows a length field for the title only
attribute_requires_len_title_only(attr_id) == attr_id = 1

attribute_requires_len(attr_id) == attr_id \in {1, 2, 3}

dummy_notification_attribute(attr_id, requested_len) ==
    CASE attr_id = 0 -> truncate_bytes(DUMMY_APP_IDENTIFIER, requested_len)
      [] attr_id = 1 -> truncate_bytes(DUMMY_MESSAGE_TITLE, requested_len)
      [] attr_id = 2 -> truncate_bytes(DUMMY_MESSAGE_SUBTITLE, requested_len)
      [] attr_id = 3 -> truncate_bytes(DUMMY_MESSAGE_BODY, requested_len)
      [] attr_id = 4 -> truncate_bytes(<<48>>, requested_len)
      [] attr_id = 5 -> truncate_bytes(DUMMY_DATE, requested_len)
      [] attr_id = 6 -> truncate_bytes(<<79, 112, 101, 110>>, requested_len)
      [] attr_id = 7 -> truncate_bytes(<<73, 103, 110, 111, 114, 101>>, requested_len)
      [] OTHER -> truncate_bytes(<<>>, requested_len)

\* an app attribute that ignores the requested length
dummy_app_attribute_untruncated(attr_id, requested_len) ==
    IF attr_id = 0 THEN DUMMY_APP_DISPLAY_NAME ELSE <<>>

dummy_app_attribute(attr_id, requested_len) ==
    IF attr_id = 0 THEN truncate_bytes(DUMMY_APP_DISPLAY_NAME, requested_len)
    ELSE truncate_bytes(<<>>, requested_len)

append_app_attribute(buffer, attr_id, value) ==
    buffer \o <<attr_id>> \o u16_to_le_bytes(Len(value)) \o value

\* a test for the two length bytes that accepts a single remaining byte
LengthFieldMissingLoose(request, offset) == offset >= Len(request)

\* if offset + 1 >= request.len() { break; }
LengthFieldMissing(request, offset) == offset + 1 >= Len(request)

\* one TLV pushed onto the response
Tlv(attr_id, value) == <<attr_id>> \o u16_to_le_bytes(Len(value)) \o value

\* the while loop of build_notification_attributes_response, from offset on;
\* st holds the response so far, appended, and the request indices read
RECURSIVE NotificationAttributesLoop(_, _, _)
NotificationAttributesLoop(request, offset, st) ==
    IF ~(offset < Len(request)) THEN st
    ELSE LET attr_id == At(request, offset)
             o1 == offset + 1
         IN  IF attribute_requires_len(attr_id)
             THEN IF LengthFieldMissing(request, o1)
                  THEN [st EXCEPT !.reads = @ \cup {offset}]
                  ELSE LET requested_len == u16_from_le_bytes(At(request, o1), At(request, o1 + 1))
                           value == dummy_notification_attribute(attr_id, requested_len)
                       IN  NotificationAttributesLoop(request, o1 + 2,
                             [response |-> st.response \o Tlv(attr_id, value),
                              appended |-> TRUE,
                              reads |-> st.reads \cup {offset, o1, o1 + 1}])
             ELSE LET value == dummy_notification_attribute(attr_id, 0)
                  IN  NotificationAttributesLoop(request, o1,
                        [response |-> st.response \o Tlv(attr_id, value),
                         appended |-> TRUE,
                         reads |-> st.reads \cup {offset}])

\* a builder that starts every response with a zero header
NotificationAttributesRunZeroHeader(request) ==
    NotificationAttributesLoop(request, 5,
      [response |-> <<0, 0, 0, 0, 0>>, appended |-> FALSE,
       reads |-> IF Len(request) >= 5 THEN 0..4 ELSE {}])

\* build_notification_attributes_response up to the end of its loop
NotificationAttributesRun(request) ==
    LET long == Len(request) >= 5
        header == IF long THEN Slice(request, 0, 5) ELSE <<0>> \o <<0, 0, 0, 0>>
    IN  NotificationAttributesLoop(request, 5,
          [response |-> header, appended |-> FALSE,
           reads |-> IF long THEN 0..4 ELSE {}])

\* a builder without the default attribute
build_notification_attributes_response_no_default(request) ==
    NotificationAttributesRun(request).response

build_notification_attributes_response(request) ==
    LET st == NotificationAttributesRun(request)
    IN  IF ~st.appended
        THEN LET value == dummy_notification_attribute(0, 0)
             IN  st.response \o <<0>> \o u16_to_le_bytes(Len(value)) \o value
        ELSE st.response

\* the while loop of extract_app_identifier: the index of the first zero byte
\* at or after idx, or request.len()
RECURSIVE AppIdentifierEnd(_, _)
AppIdentifierEnd(request, idx) ==
    IF idx < Len(request) /\ At(request, idx) # 0
    THEN AppIdentifierEnd(request, idx + 1)
    ELSE idx

extract_app_identifier(request) ==
    IF Len(request) <= 1 THEN [app_id |-> <<>>, cursor |-> Len(request), reads |-> {}]
    ELSE LET idx == AppIdentifierEnd(request, 1)
         IN  [app_id |-> Slice(request, 1, idx),
              cursor |-> IF idx < Len(request) THEN idx + 1 ELSE Len(request),
              reads |-> {i \in 1..idx : i < Len(request)}]

\* the while loop of build_app_attributes_response, from cursor on; st holds
\* the response so far and the request indices read
RECURSIVE AppAttributesLoop(_, _, _)
AppAttributesLoop(request, cursor, st) ==
    IF ~(cursor < Len(request)) THEN st
    ELSE LET attr_id == At(request, cursor)
             c1 == cursor + 1
         IN  IF LengthFieldMissing(request, c1)
             THEN [st EXCEPT !.reads = @ \cup {cursor}]
             ELSE LET requested_len == u16_from_le_bytes(At(request, c1), At(request, c1 + 1))
                  IN  AppAttributesLoop(request, c1 + 2,
                        [response |-> append_app_attribute(st.response, attr_id,
                                         dummy_app_attribute(attr_id, requested_len)),
                         reads |-> st.reads \cup {cursor, c1, c1 + 1}])

\* build_app_attributes_response up to the end of its loop
AppAttributesRun(request) ==
    LET ex == extract_app_identifier(request)
        head == <<1>> \o ex.app_id \o <<0>>
    IN  IF ex.cursor >= Len(request)
        THEN [response |-> head, reads |-> ex.reads]
        ELSE AppAttributesLoop(request, ex.cursor, [response |-> head, reads |-> ex.reads])

build_app_attributes_response(request) ==
    LET ex == extract_app_identifier(request)
        head == <<1>> \o ex.app_id \o <<0>>
    IN  IF ex.cursor >= Len(request)
        THEN append_app_attribute(head, 0, dummy_app_attribute(0, 0))
        ELSE LET response == AppAttributesRun(request).response
             IN  IF Len(response) = 1 + Len(ex.app_id) + 1
                 THEN append_app_attribute(response, 0, dummy_app_attribute(0, 0))
                 ELSE response

build_action_ack_response(request) ==
    <<2>>
    \o (IF Len(request) >= 5 THEN Slice(request, 1, 5) ELSE <<0, 0, 0, 0>>)
    \o <<IF 5 < Len(request) THEN At(request, 5) ELSE 0>>

\* the request indices build_control_point_response and the builder it
\* selects read (request.get(i) reads nothing outside the request)
control_point_reads(request) ==
    IF Len(request) = 0 THEN {}
    ELSE LET command == At(request, 0)
         IN  {0} \cup
             (CASE command = 0 -> NotificationAttributesRun(request).reads
                [] command = 1 -> AppAttributesRun(request).reads
                [] command = 2 -> (IF Len(request) >= 5 THEN 1..4 ELSE {})
                                  \cup (IF 5 < Len(request) THEN {5} ELSE {})
                [] OTHER -> {})

\* a dispatch that answers the empty request too
build_control_point_response_answers_empty(request) ==
    IF Len(request) = 0 THEN Some(<<255, 0>>)
    ELSE LET command == At(request, 0)
         IN  CASE command = 0 -> Some(build_notification_attributes_response(request))
               [] command = 1 -> Some(build_app_attributes_response(request))
               [] command = 2 -> Some(build_action_ack_response(request))
               [] OTHER -> Some(<<command, 0>>)

\* a dispatch that knows no PerformNotificationAction
build_control_point_response_no_ack(request) ==
    IF Len(request) = 0 THEN None
    ELSE LET command == At(request, 0)
         IN  CASE command = 0 -> Some(build_notification_attributes_response(request))
               [] command = 1 -> Some(build_app_attributes_response(request))
               [] OTHER -> Some(<<command, 0>>)

\* build_control_point_response: None for the empty request, else the
\* response of the builder the command byte selects
build_control_point_response(request) ==
    IF Len(request) = 0 THEN None
    ELSE LET command == At(request, 0)
         IN  CASE command = 0 -> Some(build_notification_attributes_response(request))
               [] command = 1 -> Some(build_app_attributes_response(request))
               [] command = 2 -> Some(build_action_ack_response(request))
               [] OTHER -> Some(<<command, 0>>)

(* -------------------------------- Init -------------------------------- *)
Init ==
    /\ pc = "start" /\ ops = <<>> /\ err = "" /\ addr = 0
    /\ scan = [advs |-> <<>>, examined |-> 0, ok |-> FALSE]
    /\ chars = <<>> /\ slots = NoneSlots
    /\ on_notify_set = FALSE /\ subscribed = FALSE /\ factory_calls = 0
    /\ link = "none" /\ discs = <<>> /\ disconnect_reason = 0
    /\ notify_calls = 0 /\ notified_seen = -1 /\ reported = -1 /\ wakeups = 0
    /\ rx_queue = <<>> /\ wpc = "none" /\ cur = 0 /\ inflight = {}
    /\ wstat = [c \in Calls |-> "none"]
    /\ resp = [c \in Calls |-> "empty"]
    /\ resp_sent = [c \in Calls |-> 0]
    /\ deq = [c \in Calls |-> 0]
    /\ wrcnt = [c \in Calls |-> 0]
    /\ cstate = [c \in Calls |-> "idle"]
    /\ cres = [c \in Calls |-> "none"]
    /\ handed = <<>> /\ written = <<>>
    /\ boot_holds = FALSE /\ cb_held = FALSE /\ torn_down = FALSE
    /\ ancs = "none" /\ hb_spawned = FALSE /\ advertising = FALSE /\ adv_restart = "none"
    /\ counter = U32(1) /\ ticks = 0
    /\ ns_value = <<>>
    /\ conns = {} /\ encrypted = [p \in Peers |-> FALSE]
    /\ ns_subs = {} /\ ns_sent = {}
    /\ event = [kind |-> "none", conn |-> 0, ok |-> FALSE]
    /\ ds_value = <<>> /\ ds_subs = {} /\ ds_sent = {} /\ cp_rejected = FALSE
    /\ cp_request = <<>>
    /\ touch_pc = "loop" /\ pointer_active = FALSE
    /\ touch_event = [action |-> -1, x |-> 0, y |-> 0]
    /\ touch_text = <<>> /\ platform_window = FALSE /\ pointer_actions = <<>>

(* ---------------------- connect(): the bootstrap ---------------------- *)
\* an error that is logged while connect() carries on to the session factory
FailIgnored(stage, msg) ==
    /\ pc' = "factory"
    /\ err' = msg
    /\ ops' = Append(ops, stage)
    /\ boot_holds' = boot_holds

\* return Err(msg) from connect(): its locals, send_queue among them, are dropped
Fail(stage, msg) ==
    /\ pc' = "err"
    /\ err' = msg
    /\ ops' = Append(ops, stage)
    /\ boot_holds' = FALSE

Advance(stage, next) ==
    /\ pc' = next
    /\ ops' = Append(ops, stage)
    /\ UNCHANGED <<err, boot_holds>>

\* an initialization that begins advertising and spawns the heartbeat task
\* before it starts the server
init_fake_ancs_service_start_last(r) ==
    /\ ancs' = IF r = "ok" THEN "running" ELSE r
    /\ ns_value' = build_notification_source_payload(U32(0))
    /\ ds_value' = <<>>
    /\ advertising' = (r # "adv_failed")
    /\ hb_spawned' = (r # "adv_failed")
    /\ counter' = U32(1)

\* init_fake_ancs_service: characteristics and handlers are set up, then
\* server.start()?, configure_advertising()?, spawn of the heartbeat task
init_fake_ancs_service(r) ==
    /\ ancs' = IF r = "ok" THEN "running" ELSE r
    /\ ns_value' = build_notification_source_payload(U32(0))
    /\ ds_value' = <<>>
    /\ advertising' = (r = "ok")
    /\ hb_spawned' = (r = "ok")
    /\ counter' = U32(1)

BootAncsInit ==
    /\ pc = "start"
    /\ \E r \in {"ok", "start_failed", "adv_failed"} :
         /\ init_fake_ancs_service(r)
         /\ IF r = "ok" THEN Advance("ancs_init", "scan") ELSE Fail("ancs_init", r)
    /\ UNCHANGED <<addr, scan, chars, slots, on_notify_set, subscribed, factory_calls>>
    /\ UNCHANGED <<linkVars, rx_queue, handed, cb_held, torn_down, workVars, callVars, ancsRunVars>>
    /\ UNCHANGED touchVars

\* scan.start(&ble, 10_000, callback).await?.ok_or_else(...)? on advertisements
\* drawn from the set inputs
BootScanOn(inputs) ==
    /\ pc = "scan"
    /\ \E advs \in inputs, ok \in BOOLEAN :
         LET found == ScanStart(advs)
         IN  /\ scan' = [advs |-> advs, examined |-> ScanExamined(advs), ok |-> ok]
             /\ IF ~ok THEN Fail("scan", "scan failed") /\ addr' = addr
                ELSE IF found = 0 THEN Fail("scan", "Target device not found") /\ addr' = addr
                ELSE Advance("scan", "connect") /\ addr' = found
    /\ UNCHANGED <<chars, slots, on_notify_set, subscribed, factory_calls>>
    /\ UNCHANGED <<linkVars, rx_queue, handed, cb_held, torn_down, workVars, callVars, ancsVars>>
    /\ UNCHANGED touchVars

BootScan == BootScanOn(AdvSeqs)

\* on_disconnect is registered, then client.connect(&addr).await?
BootConnect ==
    /\ pc = "connect"
    /\ \E ok \in BOOLEAN :
         IF ok THEN Advance("connect", "get_service") /\ link' = "up"
         ELSE Fail("connect", "connect failed") /\ link' = link
    /\ UNCHANGED <<addr, scan, chars, slots, on_notify_set, subscribed, factory_calls>>
    /\ UNCHANGED <<discs, disconnect_reason, notify_calls, notified_seen, reported, wakeups>>
    /\ UNCHANGED <<rx_queue, handed, cb_held, torn_down, workVars, callVars, ancsVars>>
    /\ UNCHANGED touchVars

BootGetService ==
    /\ pc = "get_service"
    /\ \E ok \in BOOLEAN :
         IF ok THEN Advance("get_service", "get_characteristics")
         ELSE Fail("get_service", "Can't found fe95 service")
    /\ UNCHANGED <<addr, scan, chars, slots, on_notify_set, subscribed, factory_calls>>
    /\ UNCHANGED <<linkVars, rx_queue, handed, cb_held, torn_down, workVars, callVars, ancsVars>>
    /\ UNCHANGED touchVars

BootGetCharacteristics ==
    /\ pc = "get_characteristics"
    /\ \E ok \in BOOLEAN, cs \in CharLists :
         IF ok THEN Advance("get_characteristics", "resolve") /\ chars' = cs
         ELSE Fail("get_characteristics", "get_characteristics failed") /\ chars' = chars
    /\ UNCHANGED <<addr, scan, slots, on_notify_set, subscribed, factory_calls>>
    /\ UNCHANGED <<linkVars, rx_queue, handed, cb_held, torn_down, workVars, callVars, ancsVars>>
    /\ UNCHANGED touchVars

\* the two loops and the three ok_or_else(...)?
BootResolve ==
    /\ pc = "resolve"
    /\ LET st == ResolveCharacteristics(chars)
       IN  /\ slots' = st
           /\ IF ResolveError(st) = "" THEN Advance("resolve", "read_flag")
              ELSE Fail("resolve", ResolveError(st))
    /\ UNCHANGED <<addr, scan, chars, on_notify_set, subscribed, factory_calls>>
    /\ UNCHANGED <<linkVars, rx_queue, handed, cb_held, torn_down, workVars, callVars, ancsVars>>
    /\ UNCHANGED touchVars

\* best-effort read of 0x0050: its result is only logged
BootReadFlag ==
    /\ pc = "read_flag"
    /\ pc' = "spawn"
    /\ ops' = IF can_read(chars[slots.flag]) THEN Append(ops, "read_flag") ELSE ops
    /\ UNCHANGED <<err, addr, scan, chars, slots, on_notify_set, subscribed, factory_calls>>
    /\ UNCHANGED <<linkVars, sendVars, ancsVars>>
    /\ UNCHANGED touchVars

\* the channel is created and the worker task spawned; send_queue holds the sender
BootSpawn ==
    /\ pc = "spawn"
    /\ pc' = "subscribe"
    /\ ops' = Append(ops, "spawn")
    /\ wpc' = "recv"
    /\ boot_holds' = TRUE
    /\ UNCHANGED <<err, addr, scan, chars, slots, on_notify_set, subscribed, factory_calls>>
    /\ UNCHANGED <<linkVars, rx_queue, handed, cb_held, torn_down, callVars, ancsVars>>
    /\ UNCHANGED <<cur, inflight, wstat, resp, resp_sent, deq, wrcnt, written>>
    /\ UNCHANGED touchVars

\* if ch_recv.can_notify(): on_notify(dispatcher), subscribe_notify(true).await?
\* else only a log line
BootSubscribe ==
    /\ pc = "subscribe"
    /\ IF can_notify(chars[slots.recv])
       THEN /\ on_notify_set' = TRUE
            /\ \E ok \in BOOLEAN :
                 IF ok THEN Advance("subscribe", "factory") /\ subscribed' = TRUE
                 ELSE Fail("subscribe", "subscribe failed") /\ subscribed' = subscribed
       ELSE /\ pc' = "factory"
            /\ UNCHANGED <<ops, err, boot_holds, on_notify_set, subscribed>>
    /\ UNCHANGED <<addr, scan, chars, slots, factory_calls>>
    /\ UNCHANGED <<linkVars, rx_queue, handed, cb_held, torn_down, workVars, callVars, ancsVars>>
    /\ UNCHANGED touchVars

\* device::create_miwear_device(..., write callback) is called: the callback
\* (send_cb) moves to the factory
BootFactory ==
    /\ pc = "factory"
    /\ pc' = "in_factory"
    /\ ops' = Append(ops, "create_miwear_device")
    /\ factory_calls' = factory_calls + 1
    /\ cb_held' = TRUE
    /\ UNCHANGED <<err, addr, scan, chars, slots, on_notify_set, subscribed>>
    /\ UNCHANGED <<linkVars, rx_queue, handed, boot_holds, torn_down, workVars, callVars, ancsVars>>
    /\ UNCHANGED touchVars

\* create_miwear_device(...).await? returns; on Ok the bootstrap creates
\* disconnect_notify.notified() and awaits it
FactoryReturn ==
    /\ pc = "in_factory"
    /\ \E ok \in BOOLEAN :
         IF ok
         THEN /\ pc' = "wait"
              /\ ops' = Append(ops, "wait")
              /\ notified_seen' = notify_calls
              /\ UNCHANGED <<err, boot_holds>>
         ELSE /\ pc' = "err"
              /\ err' = "create_miwear_device failed"
              /\ boot_holds' = FALSE
              /\ UNCHANGED <<ops, notified_seen>>
    /\ UNCHANGED <<addr, scan, chars, slots, on_notify_set, subscribed, factory_calls>>
    /\ UNCHANGED <<link, discs, disconnect_reason, notify_calls, reported, wakeups>>
    /\ UNCHANGED <<rx_queue, handed, cb_held, torn_down, workVars, callVars, ancsVars>>
    /\ UNCHANGED touchVars

\* a wait that also completes when no notify_waiters() call was made
NotifiedOrNot == notify_calls >= notified_seen

\* notified().await completes only for a notify_waiters() call made after the
\* Notified future was created
Notified == notify_calls > notified_seen

\* the bootstrap resumes: guard.take() of the reason, the log line, Ok(())
BootWake ==
    /\ pc = "wait"
    /\ Notified
    /\ pc' = "done"
    /\ wakeups' = wakeups + 1
    /\ reported' = disconnect_reason
    /\ disconnect_reason' = 0
    /\ boot_holds' = FALSE
    /\ UNCHANGED <<ops, err, addr, scan, chars, slots, on_notify_set, subscribed, factory_calls>>
    /\ UNCHANGED <<link, discs, notify_calls, notified_seen>>
    /\ UNCHANGED <<rx_queue, handed, cb_held, torn_down, workVars, callVars, ancsVars>>
    /\ UNCHANGED touchVars

\* the slot write of the on_disconnect closure
StoreReason(slot, reason) == reason

\* the BLE stack fires the client's on_disconnect closure (on its own context)
ClientDisconnect(reason) ==
    /\ link # "none"
    /\ pc \notin {"err", "done", "dropped"}
    /\ Len(discs) < MaxDisconnects
    /\ link' = "down"
    /\ discs' = Append(discs, reason)
    /\ disconnect_reason' = StoreReason(disconnect_reason, reason)
    /\ notify_calls' = notify_calls + 1
    /\ UNCHANGED <<notified_seen, reported, wakeups>>
    /\ UNCHANGED <<bootVars, sendVars, ancsVars>>
    /\ UNCHANGED touchVars

(* ------------------------- the send serializer ------------------------ *)
\* the receiver half (rx) exists while the worker task does
RxAlive == wpc \in {"recv", "await_write"}

\* a sender exists: send_queue, the callback's clone, or a call's clone of it
SendersAlive == boot_holds \/ cb_held \/ (\E c \in Calls : cstate[c] = "waiting")

\* a queue that hands the newest entry out first
QueuePushFront(q, e) == <<e>> \o q

\* tx.send((data, resp_tx)) on the unbounded channel
QueuePush(q, e) == Append(q, e)

\* send_cb(data): the oneshot channel is created and the entry handed to the queue.
\* Callers are interchangeable, so calls are numbered in the order in which they
\* reach tx.send; any number of them may be waiting at the same time.
CallerEnqueue(c) ==
    /\ cb_held
    /\ cstate[c] = "idle"
    /\ \A d \in Calls : d < c => cstate[d] # "idle"
    /\ IF RxAlive
       THEN /\ rx_queue' = QueuePush(rx_queue, c)
            /\ handed' = Append(handed, c)
            /\ cstate' = [cstate EXCEPT ![c] = "waiting"]
            /\ cres' = cres
       ELSE /\ cstate' = [cstate EXCEPT ![c] = "done"]
            /\ cres' = [cres EXCEPT ![c] = "Io: send queue closed"]
            /\ UNCHANGED <<rx_queue, handed>>
    /\ UNCHANGED <<boot_holds, cb_held, torn_down, workVars, bootVars, linkVars, ancsVars>>
    /\ UNCHANGED touchVars

\* resp_rx.await: the value the worker sent, or an error when the responder
\* was dropped unanswered
CallerResolve(c) ==
    /\ cstate[c] = "waiting"
    /\ resp[c] # "empty"
    /\ cstate' = [cstate EXCEPT ![c] = "done"]
    /\ cres' = [cres EXCEPT ![c] =
                 IF resp[c] = "dropped" THEN "Io: send task dropped" ELSE resp[c]]
    /\ UNCHANGED <<chanVars, workVars, bootVars, linkVars, ancsVars>>
    /\ UNCHANGED touchVars

\* a worker that polls the queue while its write is still outstanding
WorkerAtRecvOrWriting == wpc \in {"recv", "await_write"}

\* the worker is at rx.recv().await: it asks the queue for an entry only
\* between two iterations of its loop
WorkerAtRecv == wpc = "recv"

\* a receive that leaves the entry in the queue
QueuePeek(q) == q

\* rx.recv() removes the entry it returns
QueuePop(q) == Tail(q)

\* a worker that leaves its loop when a write failed
NextWorkerPcAbort(result) == IF result = "Ok" THEN "recv" ELSE "exited"

\* after responder.send(result) the loop goes back to rx.recv(), whatever the result
NextWorkerPc(result) == "recv"

\* a worker that prefers the unacknowledged write
WriteAttemptNoResponseFirst(ch) ==
    IF can_write_no_response(ch) THEN "no_response"
    ELSE IF can_write(ch) THEN "with_response"
    ELSE "none"

\* the if / else if / else of the worker: write_value(&data, true),
\* write_value(&data, false), or no write at all
WriteAttempt(ch) ==
    IF can_write(ch) THEN "with_response"
    ELSE IF can_write_no_response(ch) THEN "no_response"
    ELSE "none"

\* one iteration of the worker loop up to its first suspension: rx.recv()
\* returns the oldest entry, then the write is started, or refused at once
WorkerRecv ==
    /\ WorkerAtRecv
    /\ rx_queue # <<>>
    /\ LET e == Head(rx_queue)
           ch == chars[slots.sent]
       IN  /\ rx_queue' = QueuePop(rx_queue)
           /\ deq' = [deq EXCEPT ![e] = @ + 1]
           /\ IF WriteAttempt(ch) # "none"
              THEN /\ written' = Append(written, [data |-> e,
                                                  response |-> (WriteAttempt(ch) = "with_response")])
                   /\ wrcnt' = [wrcnt EXCEPT ![e] = @ + 1]
                   /\ inflight' = inflight \cup {e}
                   /\ cur' = e
                   /\ wpc' = "await_write"
                   /\ UNCHANGED <<resp, resp_sent>>
              ELSE /\ resp' = [resp EXCEPT ![e] = "Io: 0x005F can't write"]
                   /\ resp_sent' = [resp_sent EXCEPT ![e] = @ + 1]
                   /\ UNCHANGED <<written, wrcnt, inflight, cur, wpc>>
    /\ UNCHANGED <<wstat, handed, boot_holds, cb_held, torn_down, callVars>>
    /\ UNCHANGED <<bootVars, linkVars, ancsVars>>
    /\ UNCHANGED touchVars

\* the BLE stack completes an outstanding write_value
WriteReturn(e) ==
    /\ e \in inflight
    /\ \E ok \in BOOLEAN : wstat' = [wstat EXCEPT ![e] = IF ok THEN "ok" ELSE "err"]
    /\ inflight' = inflight \ {e}
    /\ UNCHANGED <<wpc, cur, resp, resp_sent, deq, wrcnt, written>>
    /\ UNCHANGED <<chanVars, callVars, bootVars, linkVars, ancsVars>>
    /\ UNCHANGED touchVars

\* the worker resumes after write_value: map_err to SendError::Io,
\* responder.send(result), back to rx.recv()
WorkerRespond ==
    /\ wpc = "await_write"
    /\ cur \notin inflight
    /\ LET result == IF wstat[cur] = "ok" THEN "Ok" ELSE "Io: write failed"
       IN  /\ resp' = [resp EXCEPT ![cur] = result]
           /\ wpc' = NextWorkerPc(result)
    /\ resp_sent' = [resp_sent EXCEPT ![cur] = @ + 1]
    /\ cur' = 0
    /\ UNCHANGED <<inflight, wstat, deq, wrcnt, written>>
    /\ UNCHANGED <<chanVars, callVars, bootVars, linkVars, ancsVars>>
    /\ UNCHANGED touchVars

\* rx.recv() returns None: every sender is gone and the queue is empty
WorkerExit ==
    /\ WorkerAtRecv
    /\ rx_queue = <<>>
    /\ ~SendersAlive
    /\ wpc' = "exited"
    /\ UNCHANGED <<cur, inflight, wstat, resp, resp_sent, deq, wrcnt, written>>
    /\ UNCHANGED <<chanVars, callVars, bootVars, linkVars, ancsVars>>
    /\ UNCHANGED touchVars

\* the factory / device drops the write callback it was given
DropCallback ==
    /\ cb_held
    /\ cb_held' = FALSE
    /\ UNCHANGED <<rx_queue, handed, boot_holds, torn_down, workVars, callVars>>
    /\ UNCHANGED <<bootVars, linkVars, ancsVars>>
    /\ UNCHANGED touchVars

\* a queue whose entries outlive the worker task
DroppedWithWorkerNone == {}

\* responders that die with the worker task and the receiver: the queued
\* entries and the one being written
DroppedWithWorker == {rx_queue[i] : i \in 1..Len(rx_queue)} \cup (IF cur = 0 THEN {} ELSE {cur})

\* main(): the LocalSet is dropped, and with it the bootstrap and worker tasks
Teardown ==
    /\ ~torn_down
    /\ pc # "start"
    /\ torn_down' = TRUE
    /\ pc' = IF pc \in {"err", "done"} THEN pc ELSE "dropped"
    /\ boot_holds' = FALSE
    /\ wpc' = IF RxAlive THEN "dead" ELSE wpc
    /\ rx_queue' = <<>>
    /\ resp' = [c \in Calls |->
                  IF c \in DroppedWithWorker /\ resp[c] = "empty" THEN "dropped" ELSE resp[c]]
    /\ UNCHANGED <<ops, err, addr, scan, chars, slots, on_notify_set, subscribed, factory_calls>>
    /\ UNCHANGED <<cur, inflight, wstat, resp_sent, deq, wrcnt, written, handed, cb_held>>
    /\ UNCHANGED <<callVars, linkVars, ancsVars>>
    /\ UNCHANGED touchVars

(* ------------------------- the MiWear system -------------------------- *)
Next ==
    \/ BootAncsInit
    \/ BootScan
    \/ BootConnect
    \/ BootGetService
    \/ BootGetCharacteristics
    \/ BootResolve
    \/ BootReadFlag
    \/ BootSpawn
    \/ BootSubscribe
    \/ BootFactory
    \/ FactoryReturn
    \/ BootWake
    \/ \E reason \in Reasons : ClientDisconnect(reason)
    \/ \E c \in Calls : CallerEnqueue(c)
    \/ \E c \in Calls : CallerResolve(c)
    \/ WorkerRecv
    \/ \E e \in Calls : WriteReturn(e)
    \/ WorkerRespond
    \/ WorkerExit
    \/ DropCallback
    \/ Teardown

Spec == Init /\ [][Next]_vars

(* ------------------ the scan on arbitrary sequences ------------------- *)
\* connect() up to client.connect, the scan seeing any sequence of ScanLists
BootScanAny == BootScanOn(ScanLists)

NextScan ==
    \/ BootAncsInit
    \/ BootScanAny
    \/ BootConnect

SpecScan == Init /\ [][NextScan]_vars

(* ------------------- resolution on arbitrary lists -------------------- *)
\* connect() after svc.get_characteristics() has returned a list: every stage
\* before the resolution has succeeded
InitResolve ==
    /\ pc = "resolve"
    /\ ops = <<"ancs_init", "scan", "connect", "get_service", "get_characteristics">>
    /\ err = "" /\ addr = 1
    /\ scan = [advs |-> <<AdvWatch>>, examined |-> 1, ok |-> TRUE]
    /\ chars \in ResolveLists /\ slots = NoneSlots
    /\ on_notify_set = FALSE /\ subscribed = FALSE /\ factory_calls = 0
    /\ link = "up" /\ discs = <<>> /\ disconnect_reason = 0
    /\ notify_calls = 0 /\ notified_seen = -1 /\ reported = -1 /\ wakeups = 0
    /\ rx_queue = <<>> /\ wpc = "none" /\ cur = 0 /\ inflight = {}
    /\ wstat = [c \in Calls |-> "none"]
    /\ resp = [c \in Calls |-> "empty"]
    /\ resp_sent = [c \in Calls |-> 0]
    /\ deq = [c \in Calls |-> 0]
    /\ wrcnt = [c \in Calls |-> 0]
    /\ cstate = [c \in Calls |-> "idle"]
    /\ cres = [c \in Calls |-> "none"]
    /\ handed = <<>> /\ written = <<>>
    /\ boot_holds = FALSE /\ cb_held = FALSE /\ torn_down = FALSE
    /\ ancs = "running" /\ hb_spawned = TRUE /\ advertising = TRUE /\ adv_restart = "none"
    /\ counter = U32(1) /\ ticks = 0
    /\ ns_value = build_notification_source_payload(U32(0))
    /\ conns = {} /\ encrypted = [p \in Peers |-> FALSE]
    /\ ns_subs = {} /\ ns_sent = {}
    /\ event = [kind |-> "none", conn |-> 0, ok |-> FALSE]
    /\ ds_value = <<>> /\ ds_subs = {} /\ ds_sent = {} /\ cp_rejected = FALSE
    /\ cp_request = <<>>
    /\ touch_pc = "loop" /\ pointer_active = FALSE
    /\ touch_event = [action |-> -1, x |-> 0, y |-> 0]
    /\ touch_text = <<>> /\ platform_window = FALSE /\ pointer_actions = <<>>

\* the resolution and the stages that follow it up to the subscription
NextResolve ==
    \/ BootResolve
    \/ BootReadFlag
    \/ BootSpawn
    \/ BootSubscribe

SpecResolve == InitResolve /\ [][NextResolve]_vars

(* ---------------------- the emulated ANCS server ---------------------- *)
\* connection slots of the BLE stack (sdkconfig CONFIG_BT_NIMBLE_MAX_CONNECTIONS)
CONFIG_BT_NIMBLE_MAX_CONNECTIONS == 3

\* one Notification Source notification handed to the stack for peer p
NsNotification(p, payload, enc) == [conn |-> p, payload |-> payload, encrypted |-> enc]

\* a notify_with whose notification never leaves the device
notify_with_dropped(payload, p, enc) == {}

\* characteristic.notify_with(&payload, conn): a notification to that peer
notify_with(payload, p, enc) == {NsNotification(p, payload, enc[p])}

\* characteristic.notify(): the current value to every subscribed peer
notify(payload, subs, enc) == {NsNotification(p, payload, enc[p]) : p \in subs}

\* characteristic.subscribed_count(), off by one
subscribed_count_plus_one(subs) == Cardinality(subs) + 1

\* characteristic.subscribed_count()
subscribed_count(subs) == Cardinality(subs)

\* restart_advertising(advertising): advertising.lock().start(), which may fail
restart_advertising(ok, was) ==
    /\ advertising' = (ok \/ was)
    /\ adv_restart' = IF ok THEN "ok" ELSE "failed"

\* a handler that does not call restart_advertising
no_restart(was) ==
    /\ advertising' = was
    /\ adv_restart' = "none"

\* server.on_connect
AncsConnect(p) ==
    /\ ancs = "running"
    /\ p \notin conns
    /\ Cardinality(conns) < CONFIG_BT_NIMBLE_MAX_CONNECTIONS
    /\ conns' = conns \cup {p}
    /\ encrypted' = [encrypted EXCEPT ![p] = FALSE]
    /\ IF Cardinality(conns') < CONFIG_BT_NIMBLE_MAX_CONNECTIONS
       THEN \E ok \in BOOLEAN : restart_advertising(ok, FALSE)
       ELSE no_restart(FALSE)
    /\ ns_sent' = {}
    /\ event' = [kind |-> "connect", conn |-> p, ok |-> TRUE]
    /\ UNCHANGED <<ancs, hb_spawned, counter, ns_value, ds_value, ticks, ns_subs, cpRunVars, miVars>>
    /\ UNCHANGED touchVars

\* server.on_disconnect: the stack has removed the peer and its subscriptions
AncsDisconnect(p) ==
    /\ ancs = "running"
    /\ p \in conns
    /\ conns' = conns \ {p}
    /\ ns_subs' = ns_subs \ {p}
    /\ encrypted' = [encrypted EXCEPT ![p] = FALSE]
    /\ \E ok \in BOOLEAN : restart_advertising(ok, advertising)
    /\ ns_sent' = {}
    /\ event' = [kind |-> "disconnect", conn |-> p, ok |-> TRUE]
    /\ ds_subs' = ds_subs \ {p}
    /\ UNCHANGED <<ancs, hb_spawned, counter, ns_value, ds_value, ticks, ds_sent, cp_rejected, cp_request, miVars>>
    /\ UNCHANGED touchVars

\* notification_source.on_subscribe: the stack has recorded the subscription
NsSubscribe(p, sub_notify) ==
    /\ ancs = "running"
    /\ p \in conns
    /\ ns_subs' = IF sub_notify THEN ns_subs \cup {p} ELSE ns_subs \ {p}
    /\ ns_sent' = IF sub_notify /\ encrypted[p]
                  THEN notify_with(build_notification_source_payload(U32(0)), p, encrypted)
                  ELSE {}
    /\ adv_restart' = "none"
    /\ event' = [kind |-> "subscribe", conn |-> p, ok |-> sub_notify]
    /\ UNCHANGED <<ancsInitVars, ticks, conns, encrypted, cpRunVars, miVars>>
    /\ UNCHANGED touchVars

\* server.on_authentication_complete
AncsAuthComplete(p, status_ok) ==
    /\ ancs = "running"
    /\ p \in conns
    /\ encrypted' = [encrypted EXCEPT ![p] = IF status_ok THEN TRUE ELSE @]
    /\ IF status_ok
       THEN /\ \E ok \in BOOLEAN : restart_advertising(ok, advertising)
            /\ IF subscribed_count(ns_subs) > 0
               THEN /\ ns_value' = build_notification_source_payload(U32(0))
                    /\ ns_sent' = notify_with(build_notification_source_payload(U32(0)), p, encrypted')
               ELSE /\ ns_value' = ns_value
                    /\ ns_sent' = {}
       ELSE /\ ns_sent' = {}
            /\ no_restart(advertising)
            /\ ns_value' = ns_value
    /\ event' = [kind |-> "auth", conn |-> p, ok |-> status_ok]
    /\ UNCHANGED <<ancs, hb_spawned, counter, ds_value, ticks, conns, ns_subs, cpRunVars, miVars>>
    /\ UNCHANGED touchVars

\* one iteration of the heartbeat task's loop, after ticker.tick().await
HeartbeatTick ==
    /\ hb_spawned
    /\ ticks < MaxTicks
    /\ ticks' = ticks + 1
    /\ counter' = wrapping_add1(counter)
    /\ LET payload == build_notification_source_payload(counter)
       IN  IF subscribed_count(ns_subs) > 0
           THEN /\ ns_value' = payload
                /\ ns_sent' = notify(payload, ns_subs, encrypted)
           ELSE /\ ns_value' = ns_value
                /\ ns_sent' = {}
    /\ event' = [kind |-> "tick", conn |-> 0, ok |-> TRUE]
    /\ UNCHANGED <<ancs, hb_spawned, advertising, adv_restart, conns, encrypted, ns_subs, miVars>>
    /\ UNCHANGED <<ds_value, cpRunVars>>
    /\ UNCHANGED touchVars

\* 2^32 - 2 as a u32
IdleTicks == <<254, 255, 255, 255>>

\* the first 2^32 - 2 iterations of the heartbeat loop taken as one step, for
\* the run in which no peer is subscribed during any of them: each iteration
\* builds a payload, advances the counter and, finding no subscriber, neither
\* stores nor sends it. The counter goes from 1 to 0xFFFFFFFF.
HeartbeatIdleTicks ==
    /\ hb_spawned
    /\ ticks = 0
    /\ counter = U32(1)
    /\ ~(subscribed_count(ns_subs) > 0)
    /\ counter' = wrapping_add(counter, IdleTicks)
    /\ ns_sent' = {}
    /\ event' = [kind |-> "tick", conn |-> 0, ok |-> TRUE]
    /\ UNCHANGED <<ancs, hb_spawned, advertising, ns_value, ds_value, miVars>>
    /\ UNCHANGED <<ticks, conns, encrypted, ns_subs, adv_restart, cpRunVars>>
    /\ UNCHANGED touchVars

\* Control Point requests a peer may write (inputs): empty, each command with
\* and without attributes, a truncated attribute, an unknown command
CpRequests ==
    { <<>>,
      <<0, 1, 0, 0, 0, 0, 1, 4, 0>>,
      <<0, 1, 0, 0, 0, 1, 4>>,
      <<1, 99, 0, 0, 5, 0>>,
      <<2, 1, 0, 0, 0, 0>>,
      <<9>> }

\* one Data Source notification handed to the stack for peer p
DsNotification(p, value) == [conn |-> p, value |-> value]

\* data_source.on_subscribe: the stack has recorded the subscription; the
\* handler only logs
DsSubscribe(p, sub_notify) ==
    /\ ancs = "running"
    /\ p \in conns
    /\ ds_subs' = IF sub_notify THEN ds_subs \cup {p} ELSE ds_subs \ {p}
    /\ event' = [kind |-> "ds_subscribe", conn |-> p, ok |-> sub_notify]
    /\ ns_sent' = {}
    /\ adv_restart' = "none"
    /\ UNCHANGED <<ancsInitVars, ticks, conns, encrypted, ns_subs, ds_sent, cp_rejected, cp_request, miVars>>
    /\ UNCHANGED touchVars

\* the encryption test of the Control Point write handler
WriteIsRejectedNever(enc) == FALSE

WriteIsRejected(enc) == ~enc

\* control_point.on_write
ControlPointWrite(p, request) ==
    /\ ancs = "running"
    /\ p \in conns
    /\ IF WriteIsRejected(encrypted[p])
       THEN /\ cp_rejected' = TRUE
            /\ cp_request' = cp_request
            /\ ds_value' = ds_value
            /\ ds_sent' = {}
       ELSE /\ cp_rejected' = FALSE
            /\ cp_request' = request
            /\ LET response == build_control_point_response(request)
               IN  IF response.some
                   THEN /\ ds_value' = response.v
                        /\ ds_sent' = IF subscribed_count(ds_subs) > 0
                                      THEN {DsNotification(q, response.v) : q \in ds_subs}
                                      ELSE {}
                   ELSE /\ ds_value' = ds_value
                        /\ ds_sent' = {}
    /\ event' = [kind |-> "cp_write", conn |-> p, ok |-> encrypted[p]]
    /\ ns_sent' = {}
    /\ adv_restart' = "none"
    /\ UNCHANGED <<ancs, hb_spawned, advertising, counter, ns_value>>
    /\ UNCHANGED <<ticks, conns, encrypted, ns_subs, ds_subs, miVars>>
    /\ UNCHANGED touchVars

NextAncs ==
    \/ BootAncsInit
    \/ \E p \in Peers : AncsConnect(p)
    \/ \E p \in Peers : AncsDisconnect(p)
    \/ \E p \in Peers, sub_notify \in BOOLEAN : NsSubscribe(p, sub_notify)
    \/ \E p \in Peers, status_ok \in BOOLEAN : AncsAuthComplete(p, status_ok)
    \/ HeartbeatTick
    \/ HeartbeatIdleTicks

SpecAncs == Init /\ [][NextAncs]_vars

\* the Control Point and Data Source side of the server: the connection and
\* security callbacks, Data Source subscriptions and Control Point writes
NextCp ==
    \/ BootAncsInit
    \/ \E p \in Peers : AncsConnect(p)
    \/ \E p \in Peers : AncsDisconnect(p)
    \/ \E p \in Peers, status_ok \in BOOLEAN : AncsAuthComplete(p, status_ok)
    \/ \E p \in Peers, sub_notify \in BOOLEAN : DsSubscribe(p, sub_notify)
    \/ \E p \in Peers, request \in CpRequests : ControlPointWrite(p, request)

SpecCp == Init /\ [][NextCp]_vars

\* the executor runs every task that is ready, and every write returns
Fairness ==
    /\ WF_vars(WorkerRecv)
    /\ WF_vars(WorkerRespond)
    /\ WF_vars(\E e \in Calls : WriteReturn(e))
    /\ \A c \in Calls : WF_vars(CallerResolve(c))

LiveSpec == Spec /\ Fairness

(* ------------- Control Point writes on arbitrary requests ------------- *)
\* concatenation of a sequence of byte sequences
RECURSIVE Flatten(_)
Flatten(ss) == IF ss = <<>> THEN <<>> ELSE Head(ss) \o Flatten(Tail(ss))

\* every prefix of every request of a set: the truncated requests
Prefixes(S) == UNION {{SubSeq(r, 1, n) : n \in 0..Len(r)} : r \in S}

\* requested-length fields: 0, 5, 43, 65535 (little-endian)
LenFields == {<<0, 0>>, <<5, 0>>, <<43, 0>>, <<255, 255>>}

\* attribute entries of a GetNotificationAttributes request: IDs 1, 2, 3 are
\* followed by a length field, the other IDs are not
NotifEntries ==
    {<<id>> : id \in {0, 5, 8}}
    \cup {<<id>> \o l : id \in {1, 2, 3}, l \in LenFields}

\* attribute entries of a GetAppAttributes request: an ID and a length field
AppEntries == {<<id>> \o l : id \in {0, 9}, l \in LenFields}

EntrySeqs(entries) == UNION {[1..n -> entries] : n \in 0..MaxAttrs}

ReqUid == <<9, 1, 2, 3>>

NotifRequests == {<<0>> \o ReqUid \o Flatten(es) : es \in EntrySeqs(NotifEntries)}

AppRequests ==
    {<<1>> \o id \o <<0>> \o Flatten(es) :
        id \in {<<>>, <<99>>, <<99, 111>>}, es \in EntrySeqs(AppEntries)}

ActionRequests == {<<2>> \o ReqUid \o <<1>>, <<2>> \o ReqUid \o <<0, 77>>}

OtherRequests == {<<3>>, <<9, 1, 2>>, <<255>>}

\* requests a peer may write (inputs of the codec): the well-formed requests
\* of each command, every truncation of them, and unknown commands
CodecRequests ==
    Prefixes(NotifRequests \cup AppRequests \cup ActionRequests \cup OtherRequests)

\* the server after a successful initialization, with peer 1 connected and
\* its link encrypted
InitCodec ==
    /\ pc = "scan" /\ ops = <<"ancs_init">> /\ err = "" /\ addr = 0
    /\ scan = [advs |-> <<>>, examined |-> 0, ok |-> FALSE]
    /\ chars = <<>> /\ slots = NoneSlots
    /\ on_notify_set = FALSE /\ subscribed = FALSE /\ factory_calls = 0
    /\ link = "none" /\ discs = <<>> /\ disconnect_reason = 0
    /\ notify_calls = 0 /\ notified_seen = -1 /\ reported = -1 /\ wakeups = 0
    /\ rx_queue = <<>> /\ wpc = "none" /\ cur = 0 /\ inflight = {}
    /\ wstat = [c \in Calls |-> "none"]
    /\ resp = [c \in Calls |-> "empty"]
    /\ resp_sent = [c \in Calls |-> 0]
    /\ deq = [c \in Calls |-> 0]
    /\ wrcnt = [c \in Calls |-> 0]
    /\ cstate = [c \in Calls |-> "idle"]
    /\ cres = [c \in Calls |-> "none"]
    /\ handed = <<>> /\ written = <<>>
    /\ boot_holds = FALSE /\ cb_held = FALSE /\ torn_down = FALSE
    /\ ancs = "running" /\ hb_spawned = TRUE /\ advertising = TRUE /\ adv_restart = "ok"
    /\ counter = U32(1) /\ ticks = 0
    /\ ns_value = build_notification_source_payload(U32(0))
    /\ conns = {1} /\ encrypted = [p \in Peers |-> p = 1]
    /\ ns_subs = {} /\ ns_sent = {}
    /\ event = [kind |-> "auth", conn |-> 1, ok |-> TRUE]
    /\ ds_value = <<>> /\ ds_subs = {} /\ ds_sent = {} /\ cp_rejected = FALSE
    /\ cp_request = <<>>
    /\ touch_pc = "loop" /\ pointer_active = FALSE
    /\ touch_event = [action |-> -1, x |-> 0, y |-> 0]
    /\ touch_text = <<>> /\ platform_window = FALSE /\ pointer_actions = <<>>

\* the first Control Point write of the peer, carrying any request
CodecWrite ==
    /\ event.kind # "cp_write"
    /\ \E request \in CodecRequests : ControlPointWrite(1, request)

NextCodec == CodecWrite

SpecCodec == InitCodec /\ [][NextCodec]_vars

(* --------------------------- the touch loop --------------------------- *)
DISPLAY_WIDTH == 240
DISPLAY_HEIGHT == 240

\* i32::clamp(min, max)
clamp(v, min, max) == IF v < min THEN min ELSE IF v > max THEN max ELSE v

normalize_coordinates(raw_x, raw_y) ==
    [x |-> clamp(raw_x, 0, DISPLAY_WIDTH - 1), y |-> clamp(raw_y, 0, DISPLAY_HEIGHT - 1)]

\* the text of the action shown by set_touch_text
action_desc(action) ==
    CASE action = 0 -> "down" [] action = 1 -> "up" [] action = 2 -> "move"
      [] OTHER -> "unknown"

\* a handler that dispatches a move event as Move and an up event as Release
\* whatever pointer_active is
handle_touch_event_unguarded(ev, active) ==
    CASE ev.action = 0 -> [dispatch |-> "Press", still_active |-> TRUE]
      [] ev.action = 1 -> [dispatch |-> "Release", still_active |-> FALSE]
      [] ev.action = 2 -> [dispatch |-> "Move", still_active |-> active]
      [] OTHER -> [dispatch |-> "none", still_active |-> active]

\* the second match of handle_touch_event: the pointer action it dispatches
\* ("none": no dispatch) and the value it returns when the dispatch succeeds
handle_touch_event(ev, active) ==
    CASE ev.action = 0 -> [dispatch |-> "Press", still_active |-> TRUE]
      [] ev.action = 1 ->
           [dispatch |-> IF active THEN "Release" ELSE "none", still_active |-> FALSE]
      [] ev.action = 2 ->
           IF active THEN [dispatch |-> "Move", still_active |-> TRUE]
           ELSE [dispatch |-> "Press", still_active |-> TRUE]
      [] OTHER -> [dispatch |-> "none", still_active |-> active]

\* touch events the controller may report (inputs): down, up, move and an
\* unknown action, inside and outside the display
TouchEvents ==
    {[action |-> a, x |-> p[1], y |-> p[2]] :
        a \in {0, 1, 2, 3}, p \in {<<120, 80>>, <<-3, 300>>}}

\* one iteration of touch_loop in which read_one_touch_event returned an
\* event: set_touch_text, then the dispatch; an error of the dispatch ends
\* the loop. dispatch_pointer_action fails only when it has to create the
\* platform window and cannot.
TouchPoll(ev) ==
    /\ touch_pc = "loop"
    /\ Len(pointer_actions) < MaxTouchEvents
    /\ touch_event' = ev
    /\ LET pos == normalize_coordinates(ev.x, ev.y)
           r == handle_touch_event(ev, pointer_active)
       IN  /\ touch_text' = <<action_desc(ev.action), pos.x, pos.y>>
           /\ IF r.dispatch = "none"
              THEN /\ pointer_active' = r.still_active
                   /\ UNCHANGED <<touch_pc, platform_window, pointer_actions>>
              ELSE \E created \in BOOLEAN :
                     IF platform_window \/ created
                     THEN /\ platform_window' = TRUE
                          /\ pointer_actions' =
                                Append(pointer_actions,
                                       [action |-> r.dispatch, x |-> pos.x, y |-> pos.y])
                          /\ pointer_active' = r.still_active
                          /\ touch_pc' = touch_pc
                     ELSE /\ touch_pc' = "exited"
                          /\ UNCHANGED <<pointer_active, platform_window, pointer_actions>>
    /\ UNCHANGED <<miVars, ancsVars>>

NextTouch == \E ev \in TouchEvents : TouchPoll(ev)

SpecTouch == Init /\ [][NextTouch]_vars

(* ============================== claims =============================== *)
Range(s) == {s[i] : i \in 1..Len(s)}

IsPrefix(s, t) == Len(s) <= Len(t) /\ SubSeq(t, 1, Len(s)) = s

Last(s) == s[Len(s)]

\* payloads in the order the send characteristic saw them
WrittenData == [i \in 1..Len(written) |-> written[i].data]

\* C1: the send characteristic sees the payloads in exactly the order in which
\* the callers handed them to the queue (FIFO), however the calls interleave.
C1_WritesInHandOffOrder == IsPrefix(WrittenData, handed)

\* two calls in flight at once, their payloads written in hand-off order
C1_Witness == handed = <<1, 2>> /\ WrittenData = <<1, 2>> /\ cstate[1] = "waiting"

\* C2: at most one write is outstanding against the send characteristic; the
\* worker starts the next entry's write only after the previous one returned.
C2_AtMostOneWriteOutstanding ==
    /\ Cardinality(inflight) <= 1
    /\ inflight # {} => (wpc \in {"await_write", "dead"} /\ inflight = {cur})

\* a write is outstanding while another producer's entry waits in the queue
C2_Witness == Cardinality(inflight) = 1 /\ rx_queue # <<>> /\ wpc = "await_write"

\* C3: every entry is dequeued at most once, written at most once, and gets
\* exactly one completion on its response channel, sent after it was dequeued,
\* whether its write succeeded, failed or could not be made.
C3_OnceDequeuedOnceAnswered ==
    \A e \in Calls :
        /\ deq[e] <= 1 /\ wrcnt[e] <= 1 /\ resp_sent[e] <= 1
        /\ wrcnt[e] <= deq[e] /\ resp_sent[e] <= deq[e]
        /\ (deq[e] = 1 /\ cur # e) => resp_sent[e] = 1
        /\ resp_sent[e] = 1 <=> resp[e] \in {"Ok", "Io: write failed", "Io: 0x005F can't write"}
        /\ deq[e] = 1 => e \notin {rx_queue[i] : i \in 1..Len(rx_queue)}

\* one entry answered Ok and another answered with the failure of its write
C3_Witness ==
    \E e, f \in Calls :
        /\ resp[e] = "Ok" /\ resp[f] = "Io: write failed"
        /\ resp_sent[e] = 1 /\ resp_sent[f] = 1 /\ wrcnt[e] = 1 /\ wrcnt[f] = 1

\* what a resolved call's result says about its own entry
ResultIsOwn(c) ==
    CASE cres[c] = "Ok" -> wstat[c] = "ok" /\ resp_sent[c] = 1
      [] cres[c] = "Io: write failed" -> wstat[c] = "err" /\ resp_sent[c] = 1
      [] cres[c] = "Io: 0x005F can't write" -> wrcnt[c] = 0 /\ resp_sent[c] = 1
      [] cres[c] = "Io: send queue closed" -> torn_down /\ deq[c] = 0 /\ c \notin Range(handed)
      [] cres[c] = "Io: send task dropped" -> torn_down /\ resp_sent[c] = 0
      [] OTHER -> FALSE

\* C4: with every write returning and the executor fair, every enqueue call
\* resolves: with the result of its own write, or with SendError::Io when the
\* queue is closed or the worker is torn down before answering.
C4_EveryEnqueueResolves ==
    /\ \A c \in Calls : (cstate[c] = "waiting") ~> (cstate[c] = "done")
    /\ [](\A c \in Calls : (cstate[c] = "done") => ResultIsOwn(c))

\* one call resolved with its write's result, another because the worker was
\* torn down before answering
C4_Witness == cres[1] = "Ok" /\ cres[2] = "Io: send task dropped"

\* C5: a failed write is reported to the caller of that entry only; the
\* worker keeps running, so a later entry still completes with Ok.
C5_FailureContained ==
    /\ \A c \in Calls : cres[c] = "Io: write failed" => wstat[c] = "err"
    /\ \A c \in Calls : (cstate[c] = "done" /\ wstat[c] = "ok" /\ resp_sent[c] = 1) => cres[c] = "Ok"
    /\ wpc = "dead" => torn_down
    /\ wpc = "exited" => (~SendersAlive /\ rx_queue = <<>>)
    /\ (wpc \notin {"none", "dead"} /\ SendersAlive) => wpc \in {"recv", "await_write"}

\* the first entry's write failed and the entry handed over after it got Ok
C5_Witness == handed = <<1, 2>> /\ cres[1] = "Io: write failed" /\ cres[2] = "Ok"

\* C6: when the disconnect callback fires twice in one session, the waiting
\* bootstrap wakes exactly once and reports the reason of the first event.
C6_FirstReasonReported ==
    (pc = "done" /\ Len(discs) >= 2) => (wakeups = 1 /\ reported = discs[1])

\* C7: connect() returns Ok only after the disconnect callback has fired while
\* the bootstrap was waiting in the session-active state.
C7_OkOnlyAfterDisconnect ==
    pc = "done" =>
        /\ discs # <<>>
        /\ notify_calls > notified_seen
        /\ Last(ops) = "wait"
        /\ err = ""
        /\ wakeups = 1

\* the bootstrap returned Ok after a disconnect with the first reason code
C7_Witness == pc = "done" /\ discs = <<520>> /\ reported = 520

\* the order of the bootstrap's stages
StageOrder ==
    <<"ancs_init", "scan", "connect", "get_service", "get_characteristics", "resolve",
      "read_flag", "spawn", "subscribe", "create_miwear_device", "wait">>

StageIndex(op) == CHOOSE i \in 1..Len(StageOrder) : StageOrder[i] = op

\* every stage operation was performed at most once and in stage order
OpsInStageOrder ==
    \A i, j \in 1..Len(ops) : i < j => StageIndex(ops[i]) < StageIndex(ops[j])

\* the stage an error message comes from
FailedStage(msg) ==
    CASE msg \in {"start_failed", "adv_failed"} -> "ancs_init"
      [] msg \in {"scan failed", "Target device not found"} -> "scan"
      [] msg = "connect failed" -> "connect"
      [] msg = "Can't found fe95 service" -> "get_service"
      [] msg = "get_characteristics failed" -> "get_characteristics"
      [] msg \in {"0x0050 not found", "0x005e not found", "0x005f not found"} -> "resolve"
      [] msg = "subscribe failed" -> "subscribe"
      [] msg = "create_miwear_device failed" -> "create_miwear_device"
      [] OTHER -> "none"

\* C8: a failing stage makes connect() return an error at once: the failed
\* stage is the last operation performed, no later stage runs (the session
\* factory is not invoked after an earlier failure, the disconnect wait is not
\* started), and no stage is attempted a second time.
C8_FailureAbortsBootstrap ==
    /\ [](/\ (err # "") <=> (pc = "err")
          /\ OpsInStageOrder
          /\ factory_calls <= 1
          /\ pc = "err" =>
               /\ Last(ops) = FailedStage(err)
               /\ "wait" \notin Range(ops)
               /\ factory_calls = (IF err = "create_miwear_device failed" THEN 1 ELSE 0)
               /\ ~boot_holds)
    /\ [][pc = "err" => (pc' = "err" /\ ops' = ops /\ err' = err
                         /\ factory_calls' = factory_calls /\ link' = link)]_vars

\* the subscription failed after the worker was spawned and connect() returned
C8_Witness == pc = "err" /\ err = "subscribe failed" /\ wpc # "none" /\ factory_calls = 0

\* C9 as stated: the session factory is invoked only when notifications on the
\* receive characteristic are subscribed with the dispatcher installed.
C9_FactoryOnlyAfterSubscribed ==
    factory_calls > 0 => (subscribed /\ on_notify_set)

\* C9 amended: the session factory is invoked only after the subscribing stage
\* ended without error: subscribed with the dispatcher installed when the
\* receive characteristic supports notify, and with no subscription and no
\* dispatcher when it does not.
C9_FactoryAfterSubscribeStage ==
    factory_calls > 0 =>
        /\ err \in {"", "create_miwear_device failed"}
        /\ IF can_notify(chars[slots.recv])
           THEN subscribed /\ on_notify_set
           ELSE ~subscribed /\ ~on_notify_set

\* the factory was invoked after a successful subscription
C9_Witness == factory_calls = 1 /\ subscribed /\ on_notify_set /\ pc = "in_factory"

\* C10: no Notification Source notification is delivered to a peer whose link
\* is not encrypted.
C10_NoDeliveryWhileUnencrypted == \A n \in ns_sent : n.encrypted

\* C11: a subscription to Notification Source made while the link is not
\* encrypted sends nothing; an authentication-complete event with Ok status on
\* a subscribed connection sends exactly one notification, to that connection;
\* an authentication-complete event with Err status sends none.
C11_DeferredUntilAuthenticated ==
    /\ (event.kind = "subscribe" /\ event.ok /\ ~encrypted[event.conn]) => ns_sent = {}
    /\ (event.kind = "auth" /\ event.ok /\ event.conn \in ns_subs)
         => /\ Cardinality(ns_sent) = 1
            /\ \A n \in ns_sent :
                 /\ n.conn = event.conn
                 /\ n.payload = build_notification_source_payload(U32(0))
    /\ (event.kind = "auth" /\ ~event.ok) => ns_sent = {}

\* peer 1, subscribed, has just been authenticated and was sent its notification
C11_Witness ==
    /\ event = [kind |-> "auth", conn |-> 1, ok |-> TRUE]
    /\ 1 \in ns_subs
    /\ ns_sent = {NsNotification(1, build_notification_source_payload(U32(0)), TRUE)}

\* C12: a Control Point write handled while the link is not encrypted is
\* rejected: the Data Source value is as it was before the write, no Data
\* Source notification is sent, and the handler returns, whatever the request.
C12_UnencryptedWriteRejected ==
    [][(event'.kind = "cp_write" /\ ~encrypted[event'.conn])
          => (ds_value' = ds_value /\ ds_sent' = {} /\ cp_rejected')]_vars

\* an unencrypted peer's write was rejected after an earlier, encrypted write
\* had set the Data Source value and notified a subscriber
C12_Witness ==
    /\ event.kind = "cp_write" /\ ~event.ok /\ cp_rejected
    /\ ds_value # <<>> /\ ds_subs # {} /\ ds_sent = {}

\* C13: an iteration of the heartbeat loop emits exactly one Notification-Added
\* event on Notification Source when at least one peer is subscribed (the
\* payload built from the counter becomes the value and is notified once to
\* each subscriber); with no subscriber it emits nothing and leaves the
\* Notification Source value as it was.
C13_OneEventPerTick ==
    [][counter' # counter =>
         IF ns_subs # {}
         THEN /\ ns_value' = build_notification_source_payload(counter)
              /\ ns_value'[1] = 0
              /\ \A n \in ns_sent' : n.payload = ns_value'
              /\ {n.conn : n \in ns_sent'} = ns_subs
              /\ Cardinality(ns_sent') = Cardinality(ns_subs)
         ELSE ns_sent' = {} /\ ns_value' = ns_value]_vars

\* a tick with two subscribers: one event, notified to both
C13_Witness ==
    /\ event.kind = "tick"
    /\ Cardinality(ns_subs) = 2
    /\ Cardinality(ns_sent) = 2
    /\ \A n \in ns_sent : n.payload = ns_value

\* the NotificationUID field of a Notification Source payload, and the two
\* 16-bit halves of a u32 kept as four bytes
Uid(payload) == SubSeq(payload, 5, 8)
Lo16(u) == u[1] + 256 * u[2]
Hi16(u) == u[3] + 256 * u[4]

\* b = a + 1 modulo 2^32
Succ32(a, b) ==
    IF Lo16(a) = 65535
    THEN Lo16(b) = 0 /\ Hi16(b) = (Hi16(a) + 1) % 65536
    ELSE Lo16(b) = Lo16(a) + 1 /\ Hi16(b) = Hi16(a)

\* C14: the heartbeat counter is 1 when the task is spawned; every tick uses
\* the counter as the UID of its event and leaves the counter one higher
\* modulo 2^32 (0xFFFFFFFF is followed by 0), so the UIDs of successive ticks
\* are successive values modulo 2^32.
C14_UidAdvancesByOne ==
    [][/\ (hb_spawned' /\ ~hb_spawned) => counter' = U32(1)
       /\ (ticks' = ticks + 1) =>
             /\ Succ32(counter, counter')
             /\ \A n \in ns_sent' : Uid(n.payload) = counter]_vars

\* the tick that carried UID 0xFFFFFFFF to a subscriber and wrapped the counter
C14_Witness ==
    /\ event.kind = "tick"
    /\ counter = U32(0)
    /\ ns_sent # {}
    /\ \A n \in ns_sent : Uid(n.payload) = <<255, 255, 255, 255>>

\* a <= b as 32-bit unsigned values
Leq32(a, b) == Hi16(a) < Hi16(b) \/ (Hi16(a) = Hi16(b) /\ Lo16(a) <= Lo16(b))

\* b does not lie below a, a step from 0xFFFFFFFF to 0 being a wrap-around
NotBelow(a, b) == Leq32(a, b) \/ Succ32(a, b)

\* C15: within a session the NotificationUID of every Notification Source
\* event that is sent or stored as the characteristic value is never below the
\* UID of the event stored before it, apart from the 32-bit wrap-around.
C15_UidNeverDecreases ==
    [][ancs = "running" =>
         /\ NotBelow(Uid(ns_value), Uid(ns_value'))
         /\ \A n \in ns_sent' : NotBelow(Uid(ns_value), Uid(n.payload))]_vars

\* C16: after every connect, disconnect and authentication-complete event
\* (whatever its status) the handler has called restart_advertising if and
\* only if the number of connected peers is below the connection slot budget.
C16_RestartIffBelowBudget ==
    event.kind \in {"connect", "disconnect", "auth"}
        => (adv_restart # "none" <=> Cardinality(conns) < CONFIG_BT_NIMBLE_MAX_CONNECTIONS)

\* C17: when server.start() fails, init_fake_ancs_service returns the error:
\* advertising has not been started, the heartbeat task has not been spawned,
\* and connect(), which called it, has returned that error without scanning
\* or performing any later stage.
C17_ServerStartFailureIsFatal ==
    ancs = "start_failed"
        => /\ ~advertising
           /\ ~hb_spawned
           /\ pc = "err"
           /\ err = "start_failed"
           /\ ops = <<"ancs_init">>
           /\ addr = 0 /\ link = "none" /\ wpc = "none" /\ factory_calls = 0

\* the server failed to start and the bootstrap has returned the error
C17_Witness == ancs = "start_failed" /\ pc = "err" /\ ~hb_spawned

\* position, in list order, of the first characteristic of cs that satisfies
\* Match and is not among the excluded positions (0: there is none)
FirstIndex(cs, Match(_), excluded) ==
    LET hits == {i \in 1..Len(cs) : Match(cs[i]) /\ i \notin excluded}
    IN  IF hits = {} THEN 0 ELSE CHOOSE i \in hits : \A j \in hits : i <= j

ExactIndex(cs, uuid) == FirstIndex(cs, LAMBDA c : UuidEq(c.uuid, uuid), {})

SubstringIndex(cs, fragment, excluded) ==
    FirstIndex(cs, LAMBDA c : uuid_contains(c.uuid, fragment), excluded)

Resolved == "resolve" \in Range(ops)

\* the position each role has by exact match, and whether the first pass
\* resolved all three
ExactFlag(cs) == ExactIndex(cs, uuid_service_flag)
ExactRecv(cs) == ExactIndex(cs, uuid_recv)
ExactSent(cs) == ExactIndex(cs, uuid_sent)
ExactComplete(cs) == ExactFlag(cs) # 0 /\ ExactRecv(cs) # 0 /\ ExactSent(cs) # 0

\* C18 as stated: a role with an exact match has the first exact match; any
\* other role has the first characteristic, in list order, whose UUID text
\* contains the role's fragment.
C18_FirstMatchPerRole ==
    Resolved =>
        /\ slots.flag = IF ExactFlag(chars) # 0 THEN ExactFlag(chars)
                        ELSE SubstringIndex(chars, <<"0","0","5","0">>, {})
        /\ slots.recv = IF ExactRecv(chars) # 0 THEN ExactRecv(chars)
                        ELSE SubstringIndex(chars, <<"0","0","5","e">>, {})
        /\ slots.sent = IF ExactSent(chars) # 0 THEN ExactSent(chars)
                        ELSE SubstringIndex(chars, <<"0","0","5","f">>, {})

\* the roles as the amended statement gives them: the substring pass binds a
\* characteristic to one role only, testing receive, then send, then flag
AmendedRecv(cs) ==
    IF ExactRecv(cs) # 0 THEN ExactRecv(cs)
    ELSE SubstringIndex(cs, <<"0","0","5","e">>, {})
AmendedSent(cs) ==
    IF ExactSent(cs) # 0 THEN ExactSent(cs)
    ELSE SubstringIndex(cs, <<"0","0","5","f">>,
                        IF ExactRecv(cs) = 0 THEN {AmendedRecv(cs)} ELSE {})
AmendedFlag(cs) ==
    IF ExactFlag(cs) # 0 THEN ExactFlag(cs)
    ELSE SubstringIndex(cs, <<"0","0","5","0">>,
                        (IF ExactRecv(cs) = 0 THEN {AmendedRecv(cs)} ELSE {})
                        \cup (IF ExactSent(cs) = 0 THEN {AmendedSent(cs)} ELSE {}))

\* C18 (amended): a role with an exact match keeps its first exact match; if
\* all three roles have one, nothing else is bound; otherwise each unresolved
\* role gets the first characteristic, in list order, whose UUID text contains
\* its fragment and which the substring pass has not bound to a role tested
\* before it (receive, then send, then flag); a role is bound to at most one
\* characteristic.
C18_ExactAuthoritativeFirstFreeMatch ==
    Resolved =>
        /\ slots.flag = AmendedFlag(chars)
        /\ slots.recv = AmendedRecv(chars)
        /\ slots.sent = AmendedSent(chars)
        /\ ExactComplete(chars)
             => slots = [flag |-> ExactFlag(chars), recv |-> ExactRecv(chars),
                         sent |-> ExactSent(chars)]
        /\ \A r \in {slots.flag, slots.recv, slots.sent} : r \in 0..Len(chars)

\* receive and send were resolved exactly although a custom UUID containing
\* "005e" comes first in the list, and flag was resolved by the fallback
C18_Witness ==
    /\ Resolved
    /\ chars = <<ChRecvCustom, ChRecv, ChSent, ChFlagCustom>>
    /\ slots = [flag |-> 4, recv |-> 2, sent |-> 3]

\* C19: when no characteristic has the exact UUID 0x005E and some
\* characteristic's UUID text contains "005e", the receive role is bound to
\* the first such characteristic in list order.
C19_SubstringFallbackBindsRecv ==
    (/\ Resolved
     /\ ExactRecv(chars) = 0
     /\ \E i \in 1..Len(chars) : uuid_contains(chars[i].uuid, <<"0","0","5","e">>))
        => /\ slots.recv # 0
           /\ uuid_contains(chars[slots.recv].uuid, <<"0","0","5","e">>)
           /\ \A j \in 1..(slots.recv - 1) :
                 ~uuid_contains(chars[j].uuid, <<"0","0","5","e">>)

\* the list has no 0x005E; the custom UUID at position 3 became the receive
\* characteristic and the bootstrap went on
C19_Witness ==
    /\ chars = <<ChFlag, ChOther, ChRecvCustom, ChSent>>
    /\ slots.recv = 3
    /\ pc = "read_flag"

\* the resolution stage ended in an error
ResolveFailed == Resolved /\ pc = "err" /\ Last(ops) = "resolve"

\* C20: the resolution fails exactly when a role is unresolved after both
\* passes; the error names the first unresolved role in the order flag,
\* receive, send; after the failure no send worker exists and nothing has been
\* subscribed.
C20_MissingCharacteristicNamed ==
    Resolved =>
        /\ ResolveFailed <=> (slots.flag = 0 \/ slots.recv = 0 \/ slots.sent = 0)
        /\ ResolveFailed =>
             /\ err = (CASE slots.flag = 0 -> "0x0050 not found"
                         [] slots.flag # 0 /\ slots.recv = 0 -> "0x005e not found"
                         [] OTHER -> "0x005f not found")
             /\ wpc = "none" /\ ~boot_holds
             /\ ~subscribed /\ ~on_notify_set
             /\ factory_calls = 0

\* receive and send are both unresolved: the error names receive
C20_Witness ==
    /\ ResolveFailed
    /\ slots.flag # 0 /\ slots.recv = 0 /\ slots.sent = 0
    /\ err = "0x005e not found"

\* the advertisement the claim designates: the first, in arrival order, whose
\* name contains the wanted name or whose service UUIDs include 0xFE95
FirstMatch(advs) ==
    FirstIndex(advs,
               LAMBDA a : \/ (a.name # <<>> /\ Contains(a.name, wanted_name))
                          \/ \E u \in a.service_uuids : UuidEq(u, mi_service),
               {})

Scanned == "scan" \in Range(ops) /\ scan.ok

\* C21: a scan that returns selects the first matching advertisement in
\* arrival order and its callback is invoked on no advertisement after it;
\* when no advertisement matches before the timeout every advertisement was
\* examined and connect() fails with "Target device not found".
C21_FirstMatchWinsOrNotFound ==
    Scanned =>
        IF FirstMatch(scan.advs) # 0
        THEN /\ addr = scan.advs[FirstMatch(scan.advs)].addr
             /\ scan.examined = FirstMatch(scan.advs)
             /\ err # "Target device not found"
        ELSE /\ addr = 0
             /\ scan.examined = Len(scan.advs)
             /\ pc = "err" /\ err = "Target device not found"
             /\ Last(ops) = "scan"

\* two advertisements match, by service and then by name: the scan returned
\* the first and did not look at the second
C21_Witness ==
    /\ Scanned
    /\ scan.advs = <<AdvPartial, AdvBySvc, AdvWatch>>
    /\ addr = 2 /\ scan.examined = 2
    /\ pc = "connect"

\* positions in the write log of the writes that carry entry e
WritesOf(e) == {i \in 1..Len(written) : written[i].data = e}

\* C22: for every entry the worker has dequeued there is at most one write:
\* acknowledged when the send characteristic supports write, unacknowledged
\* when it supports only write-without-response, none when it supports
\* neither, the entry then being answered with Io; an acknowledged write that
\* failed is answered with Io and is followed by no second write.
C22_OneWriteAttemptPerEntry ==
    \A e \in Calls : deq[e] >= 1 =>
        LET ch == chars[slots.sent]
        IN  /\ Cardinality(WritesOf(e)) <= 1
            /\ wrcnt[e] = Cardinality(WritesOf(e))
            /\ can_write(ch)
                 => (WritesOf(e) # {} /\ \A i \in WritesOf(e) : written[i].response)
            /\ (~can_write(ch) /\ can_write_no_response(ch))
                 => (WritesOf(e) # {} /\ \A i \in WritesOf(e) : ~written[i].response)
            /\ (~can_write(ch) /\ ~can_write_no_response(ch))
                 => /\ WritesOf(e) = {}
                    /\ resp_sent[e] = 1
                    /\ resp[e] = "Io: 0x005F can't write"
                    /\ cstate[e] = "done" => cres[e] = "Io: 0x005F can't write"
            /\ (wstat[e] = "err" /\ resp_sent[e] = 1)
                 => /\ resp[e] = "Io: write failed"
                    /\ Cardinality(WritesOf(e)) = 1

\* on a characteristic that supports both modes, the acknowledged write of
\* entry 1 failed, was answered with Io, and entry 2 was then written
C22_Witness ==
    /\ slots.sent # 0
    /\ can_write(chars[slots.sent]) /\ can_write_no_response(chars[slots.sent])
    /\ wstat[1] = "err" /\ cres[1] = "Io: write failed"
    /\ Len(written) = 2 /\ written[1].data = 1 /\ written[1].response
    /\ written[2].data = 2

(* ----------------------- Control Point responses ---------------------- *)
\* an accepted Control Point write has just been handled
CpWritten == event.kind = "cp_write" /\ event.ok

\* bytes from 0-based index n on
From(b, n) == SubSeq(b, n + 1, Len(b))

Min(a, b) == IF a <= b THEN a ELSE b

\* a reader of (ID, 2-byte little-endian Length, Length value bytes) records:
\* ok says that the records consume the bytes exactly
RECURSIVE ParseTlvs(_)
ParseTlvs(b) ==
    IF b = <<>> THEN [ok |-> TRUE, tlvs |-> <<>>]
    ELSE IF Len(b) < 3 THEN [ok |-> FALSE, tlvs |-> <<>>]
    ELSE LET n == b[2] + 256 * b[3]
         IN  IF Len(b) < 3 + n THEN [ok |-> FALSE, tlvs |-> <<>>]
             ELSE LET rest == ParseTlvs(From(b, 3 + n))
                  IN  [ok |-> rest.ok,
                       tlvs |-> <<[id |-> b[1], length |-> n,
                                   value |-> SubSeq(b, 4, 3 + n)]>> \o rest.tlvs]

\* the complete attribute entries of a GetNotificationAttributes request
\* after its header: IDs 1, 2 and 3 carry a 2-byte length, the others none
RECURSIVE RequestedAttrs(_)
RequestedAttrs(b) ==
    IF b = <<>> THEN <<>>
    ELSE IF b[1] \in {1, 2, 3}
         THEN IF Len(b) < 3 THEN <<>>
              ELSE <<[id |-> b[1], len |-> b[2] + 256 * b[3]]>> \o RequestedAttrs(From(b, 3))
         ELSE <<[id |-> b[1], len |-> 0]>> \o RequestedAttrs(From(b, 1))

\* the bytes of a GetNotificationAttributes request after its header are
\* complete entries only
RECURSIVE WellFormedAttrs(_)
WellFormedAttrs(b) ==
    IF b = <<>> THEN TRUE
    ELSE IF b[1] \in {1, 2, 3} THEN Len(b) >= 3 /\ WellFormedAttrs(From(b, 3))
         ELSE WellFormedAttrs(From(b, 1))

\* the complete (attribute ID, requested length) pairs of a GetAppAttributes
\* request after its app identifier
RECURSIVE RequestedPairs(_)
RequestedPairs(b) ==
    IF Len(b) < 3 THEN <<>>
    ELSE <<[id |-> b[1], len |-> b[2] + 256 * b[3]]>> \o RequestedPairs(From(b, 3))

\* index (1-based) of the first zero byte of b at or after position i, or
\* Len(b) + 1
RECURSIVE ZeroAt(_, _)
ZeroAt(b, i) == IF i > Len(b) \/ b[i] = 0 THEN i ELSE ZeroAt(b, i + 1)

\* C23: for every byte sequence written to the Control Point (empty,
\* truncated and malformed ones included) building the response reads only
\* indices inside the request and ends with a response (or with none for the
\* empty request)
C23_ReadsInsideRequest ==
    CpWritten =>
        /\ \A i \in control_point_reads(cp_request) : i < Len(cp_request)
        /\ cp_request # <<>> => Len(ds_value) >= 2

\* a request cut inside a length field has been answered
C23_Witness ==
    /\ CpWritten
    /\ cp_request = <<0>> \o ReqUid \o <<1, 5>>
    /\ 5 \in control_point_reads(cp_request)
    /\ Len(ds_value) > 5

\* C24: the first request byte alone selects the response: 0x00 the
\* notification-attributes response, 0x01 the app-attributes response, 0x02
\* the acknowledgement [0x02, UID, action ID or 0], any other byte c the two
\* bytes [c, 0x00]
C24_CommandByteSelects ==
    (CpWritten /\ cp_request # <<>>) =>
        LET c == cp_request[1]
            n == Len(cp_request)
        IN  CASE c = 0 ->
                   /\ Len(ds_value) >= 8
                   /\ ds_value[1] = 0
                   /\ ParseTlvs(From(ds_value, 5)).ok
              [] c = 1 ->
                   LET z == ZeroAt(ds_value, 2)
                   IN  /\ ds_value[1] = 1
                       /\ z <= Len(ds_value)
                       /\ ParseTlvs(From(ds_value, z)).ok
                       /\ ParseTlvs(From(ds_value, z)).tlvs # <<>>
              [] c = 2 ->
                   /\ Len(ds_value) = 6
                   /\ ds_value[1] = 2
                   /\ SubSeq(ds_value, 2, 5) = (IF n >= 5 THEN SubSeq(cp_request, 2, 5)
                                                ELSE <<0, 0, 0, 0>>)
                   /\ ds_value[6] = (IF n >= 6 THEN cp_request[6] ELSE 0)
              [] OTHER -> ds_value = <<c, 0>>

\* an action has been acknowledged with its UID and action ID
C24_Witness ==
    /\ CpWritten
    /\ cp_request = <<2>> \o ReqUid \o <<1>>
    /\ ds_value = <<2>> \o ReqUid \o <<1>>

\* C25: for a GetNotificationAttributes request of at least 5 bytes the
\* first 5 response bytes are the first 5 request bytes and the attribute
\* TLVs start at response offset 5
C25_HeaderEchoed ==
    (CpWritten /\ Len(cp_request) >= 5 /\ cp_request[1] = 0) =>
        /\ Len(ds_value) >= 8
        /\ SubSeq(ds_value, 1, 5) = SubSeq(cp_request, 1, 5)
        /\ ParseTlvs(From(ds_value, 5)).ok
        /\ ParseTlvs(From(ds_value, 5)).tlvs # <<>>

\* a request with a UID and two attributes has been answered
C25_Witness ==
    /\ CpWritten
    /\ cp_request = <<0>> \o ReqUid \o <<5, 2, 5, 0>>
    /\ SubSeq(ds_value, 1, 5) = <<0>> \o ReqUid
    /\ Len(ParseTlvs(From(ds_value, 5)).tlvs) = 2

\* the canned value of a notification attribute and of an app attribute
NotificationCanned(id) ==
    CASE id = 1 -> DUMMY_MESSAGE_TITLE
      [] id = 2 -> DUMMY_MESSAGE_SUBTITLE
      [] id = 3 -> DUMMY_MESSAGE_BODY
      [] OTHER -> <<>>

AppCanned(id) == IF id = 0 THEN DUMMY_APP_DISPLAY_NAME ELSE <<>>

\* a GetNotificationAttributes request with its header has been answered
NotifAnswered == CpWritten /\ Len(cp_request) >= 5 /\ cp_request[1] = 0

\* the entries of the request and the TLVs of the response of NotifAnswered
NotifAsked == RequestedAttrs(From(cp_request, 5))
NotifTlvs == ParseTlvs(From(ds_value, 5))

\* the i-th TLV answers the i-th entry with a value of length n
TlvHasLength(i, n) ==
    /\ NotifTlvs.ok
    /\ i <= Len(NotifTlvs.tlvs)
    /\ NotifTlvs.tlvs[i].id = NotifAsked[i].id
    /\ NotifTlvs.tlvs[i].length = n
    /\ NotifTlvs.tlvs[i].value = SubSeq(NotificationCanned(NotifAsked[i].id), 1, n)

\* C26 as stated: an attribute with ID 1, 2 or 3 requested with any length L,
\* L = 0 included, is answered with min(L, canned length) value bytes, and
\* the Length field states that length
C26_ValueLengthIsMin ==
    NotifAnswered =>
        \A i \in 1..Len(NotifAsked) :
            NotifAsked[i].id \in {1, 2, 3} =>
                TlvHasLength(i, Min(NotifAsked[i].len,
                                    Len(NotificationCanned(NotifAsked[i].id))))

\* C26: an attribute with ID 1, 2 or 3 requested with a length L of at least
\* 1 is answered with min(L, canned length) value bytes, and one requested
\* with L = 0 with the whole canned value; the Length field states the length
C26_ValueLengthIsMinOrWhole ==
    NotifAnswered =>
        \A i \in 1..Len(NotifAsked) :
            NotifAsked[i].id \in {1, 2, 3} =>
                LET canned == Len(NotificationCanned(NotifAsked[i].id))
                    L == NotifAsked[i].len
                IN  TlvHasLength(i, IF L = 0 THEN canned ELSE Min(L, canned))

\* a title cut to 5 bytes and a subtitle requested with length 0 and
\* answered whole
C26_Witness ==
    /\ NotifAnswered
    /\ cp_request = <<0>> \o ReqUid \o <<1, 5, 0, 2, 0, 0>>
    /\ ds_value = <<0>> \o ReqUid \o <<1, 5, 0>> \o SubSeq(DUMMY_MESSAGE_TITLE, 1, 5)
                   \o <<2, Len(DUMMY_MESSAGE_SUBTITLE), 0>> \o DUMMY_MESSAGE_SUBTITLE

\* the pairs of a GetAppAttributes request and the TLVs of its response
AppAnswered == CpWritten /\ cp_request # <<>> /\ cp_request[1] = 1
AppAsked == RequestedPairs(From(cp_request, ZeroAt(cp_request, 2)))
AppTlvs == ParseTlvs(From(ds_value, ZeroAt(ds_value, 2)))

\* C27: every GetNotificationAttributes and GetAppAttributes response has at
\* least one TLV entry, and exactly one, the default attribute with ID 0,
\* when the request carries no complete attribute entry
C27_AtLeastOneEntry ==
    /\ (CpWritten /\ cp_request # <<>> /\ cp_request[1] = 0) =>
           /\ NotifTlvs.ok
           /\ NotifTlvs.tlvs # <<>>
           /\ NotifAsked = <<>> =>
                  (Len(NotifTlvs.tlvs) = 1 /\ NotifTlvs.tlvs[1].id = 0)
    /\ AppAnswered =>
           /\ AppTlvs.ok
           /\ AppTlvs.tlvs # <<>>
           /\ AppAsked = <<>> =>
                  (Len(AppTlvs.tlvs) = 1 /\ AppTlvs.tlvs[1].id = 0)

\* a GetNotificationAttributes request cut inside its only entry has been
\* answered with the default attribute
C27_Witness ==
    /\ CpWritten
    /\ cp_request = <<0>> \o ReqUid \o <<3, 43>>
    /\ Len(NotifTlvs.tlvs) = 1
    /\ NotifTlvs.tlvs[1].id = 0
    /\ NotifTlvs.tlvs[1].value = DUMMY_APP_IDENTIFIER

\* the IDs of a sequence of entries or TLVs
Ids(xs) == [i \in 1..Len(xs) |-> xs[i].id]

\* C28: for a well-formed GetNotificationAttributes request with at least
\* one attribute, reading the response after its 5-byte header as (ID,
\* little-endian Length, value) records consumes it exactly and yields the
\* attribute IDs of the request in the same order and multiplicity
C28_RoundTripIds ==
    (NotifAnswered /\ WellFormedAttrs(From(cp_request, 5)) /\ NotifAsked # <<>>) =>
        /\ NotifTlvs.ok
        /\ Ids(NotifTlvs.tlvs) = Ids(NotifAsked)

\* a request that names the body twice, with a length, and the date
C28_Witness ==
    /\ NotifAnswered
    /\ cp_request = <<0>> \o ReqUid \o <<3, 5, 0, 5>>
    /\ Ids(NotifTlvs.tlvs) = <<3, 5>>

\* the response echoes the app identifier of the request
AppIdEchoed ==
    LET z == ZeroAt(cp_request, 2)
    IN  /\ ZeroAt(ds_value, 2) = z
        /\ z <= Len(ds_value)
        /\ ds_value[1] = 1
        /\ SubSeq(ds_value, 2, z - 1) = SubSeq(cp_request, 2, z - 1)

\* C29 as stated: a GetAppAttributes response is 0x01, the app identifier up
\* to its first zero byte, a zero byte, then one TLV per (attribute ID,
\* requested length) pair in request order, each value the canned value cut
\* to the requested length
C29_AppResponseLayout ==
    AppAnswered =>
        /\ AppIdEchoed
        /\ AppTlvs.ok
        /\ Ids(AppTlvs.tlvs) = Ids(AppAsked)
        /\ \A i \in 1..Len(AppAsked) :
               AppTlvs.tlvs[i].value =
                   SubSeq(AppCanned(AppAsked[i].id), 1,
                          Min(AppAsked[i].len, Len(AppCanned(AppAsked[i].id))))

\* C29: as above, but a pair with requested length 0 is answered with the
\* whole canned value, and a request without a complete pair with the one
\* default TLV (ID 0, the whole display name)
C29_AppResponseLayoutOrDefault ==
    AppAnswered =>
        /\ AppIdEchoed
        /\ AppTlvs.ok
        /\ IF AppAsked = <<>>
           THEN AppTlvs.tlvs = <<[id |-> 0, length |-> Len(DUMMY_APP_DISPLAY_NAME),
                                  value |-> DUMMY_APP_DISPLAY_NAME]>>
           ELSE /\ Ids(AppTlvs.tlvs) = Ids(AppAsked)
                /\ \A i \in 1..Len(AppAsked) :
                       LET canned == AppCanned(AppAsked[i].id)
                           L == AppAsked[i].len
                       IN  AppTlvs.tlvs[i].value =
                               (IF L = 0 THEN canned
                                ELSE SubSeq(canned, 1, Min(L, Len(canned))))

\* a display name cut to 5 bytes after an echoed app identifier
C29_Witness ==
    /\ AppAnswered
    /\ cp_request = <<1, 99, 111, 0, 0, 5, 0, 9, 43, 0>>
    /\ ds_value = <<1, 99, 111, 0, 0, 5, 0>> \o SubSeq(DUMMY_APP_DISPLAY_NAME, 1, 5)
                   \o <<9, 0, 0>>

(* ------------------------ disconnect before the wait ------------------ *)
\* C30: a disconnect of the established link that happens before the
\* bootstrap waits for the disconnect signal is still observed at the wait:
\* whenever the bootstrap waits and the link is down, the wait can complete
C30_EarlyDisconnectNotLost ==
    (pc = "wait" /\ link = "down") => ENABLED BootWake

(* --------------------------- distinct roles --------------------------- *)
\* the resolution stage ended without an error
ResolveSucceeded == Resolved /\ ~ResolveFailed

\* C31: after a successful resolution the flag, receive and send roles are
\* bound to three pairwise distinct characteristics of the list, whichever
\* pass bound them
C31_RolesPairwiseDistinct ==
    ResolveSucceeded =>
        /\ {slots.flag, slots.recv, slots.sent} \subseteq 1..Len(chars)
        /\ slots.flag # slots.recv
        /\ slots.flag # slots.sent
        /\ slots.recv # slots.sent

\* flag was bound by the exact pass; receive and send by the substring pass,
\* to two characteristics whose UUID text contains both fragments
C31_Witness ==
    /\ ResolveSucceeded
    /\ chars = <<ChDual, ChFlag, ChDual>>
    /\ slots = [flag |-> 2, recv |-> 1, sent |-> 3]

(* ------------------- notifications on authentication ------------------ *)
\* C32: an authentication-complete Ok event for a connection sends a
\* Notification Source notification to that connection only if the connection
\* itself has subscribed to Notification Source
C32_AuthNotifiesOnlyOwnSubscription ==
    (event.kind = "auth" /\ event.ok) =>
        \A n \in ns_sent : n.conn = event.conn /\ n.conn \in ns_subs

(* ------------------ Control Point writes and Data Source -------------- *)
\* C33: a Control Point write over an encrypted link replaces the Data
\* Source value by the response to its request exactly when the request is
\* not empty, and issues a Data Source notification, carrying that response
\* to each subscriber, exactly when in addition Data Source has a subscriber;
\* an empty write leaves the Data Source value unchanged
C33_EncryptedWriteUpdatesDataSource ==
    [][(event'.kind = "cp_write" /\ event'.ok) =>
          /\ ~cp_rejected'
          /\ IF cp_request' = <<>>
             THEN ds_value' = ds_value /\ ds_sent' = {}
             ELSE /\ Len(ds_value') >= 2
                  /\ ds_value'[1] = cp_request'[1]
                  /\ ds_sent' = {[conn |-> q, value |-> ds_value'] : q \in ds_subs}
          /\ (ds_sent' # {}) <=> (cp_request' # <<>> /\ ds_subs # {})]_vars

\* an unknown command written by an encrypted peer while another peer is
\* subscribed to Data Source
C33_Witness ==
    /\ event = [kind |-> "cp_write", conn |-> 1, ok |-> TRUE]
    /\ cp_request = <<9>>
    /\ ds_value = <<9, 0>>
    /\ ds_subs = {2}
    /\ ds_sent = {[conn |-> 2, value |-> <<9, 0>>]}

(* ------------------- the worker after a failed bootstrap -------------- *)
\* connect() has returned an error after it spawned the send worker
AbortedAfterSpawn == pc = "err" /\ "spawn" \in Range(ops)

\* C34: once the bootstrap has returned an error after spawning the send
\* worker, the worker issues no write
C34_NoWriteAfterAbort ==
    [][AbortedAfterSpawn => written' = written]_vars

(* ---------------------------- pointer actions ------------------------- *)
\* the pointer is active after a sequence of dispatched actions: the last
\* Press or Release of the sequence is a Press
RECURSIVE ActiveAfter(_)
ActiveAfter(seq) ==
    IF seq = <<>> THEN FALSE
    ELSE IF Last(seq).action = "Press" THEN TRUE
    ELSE IF Last(seq).action = "Release" THEN FALSE
    ELSE ActiveAfter(SubSeq(seq, 1, Len(seq) - 1))

\* C35: for every sequence of touch events the dispatched pointer actions
\* are well-formed: a Release and a Move are dispatched only while the
\* pointer is active (after a Press with no Release since), and a move event
\* that arrives while the pointer is inactive is dispatched as a Press and
\* makes the pointer active
C35_PointerActionsWellFormed ==
    /\ [](/\ \A i \in 1..Len(pointer_actions) :
                pointer_actions[i].action \in {"Release", "Move"}
                    => ActiveAfter(SubSeq(pointer_actions, 1, i - 1))
          /\ touch_pc = "loop" => pointer_active = ActiveAfter(pointer_actions))
    /\ [][(touch_event'.action = 2 /\ ~ActiveAfter(pointer_actions)
              /\ pointer_actions' # pointer_actions)
               => /\ pointer_actions' =
                        Append(pointer_actions,
                               [action |-> "Press", x |-> touch_text'[2], y |-> touch_text'[3]])
                  /\ pointer_active'
                  /\ ActiveAfter(pointer_actions')]_vars

\* a move event opened the gesture as a Press, a second one was dispatched
\* as a Move, and the up event as a Release
C35_Witness ==
    /\ Len(pointer_actions) = 3
    /\ [i \in 1..3 |-> pointer_actions[i].action] = <<"Press", "Move", "Release">>
    /\ touch_event.action = 1
    /\ ~pointer_active
    /\ pointer_actions[1] = [action |-> "Press", x |-> 0, y |-> 239]

====
